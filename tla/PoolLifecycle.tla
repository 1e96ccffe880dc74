---------------------------- MODULE PoolLifecycle ----------------------------
(***************************************************************************)
(* Start, Stop and Shutdown of a WorkerPool on a driver with a Listener:   *)
(* who may still start goroutines, and what Shutdown waits for.            *)
(***************************************************************************)
EXTENDS Integers, Sequences

CONSTANTS
  QueueList,   \* WorkerConfig.Queues
  MaxPending,  \* capacity of the pending channel
  MaxJobs      \* bound on the jobs ever claimed

ASSUME LifecycleAssumption == MaxPending \in Nat \ {0} /\ MaxJobs \in Nat

VARIABLES
  main,          \* where Start is
  subscribed,    \* queues of QueueList that Start has subscribed to
  listeners,     \* the listener goroutines, by position of their queue
  working,       \* goroutines of claimed jobs
  claimed,       \* jobs claimed so far
  ctx,           \* the context given to Start
  shuttingDown,  \* isShuttingDown, shutdownCh closed
  waiter         \* the goroutine that waits for wg and closes shutdownDone

vars == <<main, subscribed, listeners, working, claimed, ctx, shuttingDown, waiter>>

\* The counter of the WaitGroup is zero: no listener and no job is left.
wgZero == listeners = {} /\ working = 0

Init ==
  /\ main = "new"
  /\ subscribed = 0
  /\ listeners = {}
  /\ working = 0
  /\ claimed = 0
  /\ ctx = "live"
  /\ shuttingDown = FALSE
  /\ waiter = "none"

\* Start refuses a pool that is shutting down already.
Start ==
  /\ main = "new"
  /\ main' = IF shuttingDown THEN "returned" ELSE "subscribing"
  /\ UNCHANGED <<subscribed, listeners, working, claimed, ctx, shuttingDown, waiter>>

\* runWithNotifications subscribes to the next queue; fetchMu is not held, so
\* the listener may join the WaitGroup after Shutdown has begun to wait.
Subscribe ==
  /\ main = "subscribing" /\ subscribed < Len(QueueList)
  /\ subscribed' = subscribed + 1
  /\ listeners' = listeners \cup {subscribed + 1}
  /\ UNCHANGED <<main, working, claimed, ctx, shuttingDown, waiter>>

\* Listen fails: Start returns the error.
SubscribeFails ==
  /\ main = "subscribing" /\ subscribed < Len(QueueList)
  /\ main' = "returned"
  /\ UNCHANGED <<subscribed, listeners, working, claimed, ctx, shuttingDown, waiter>>

EnterMainLoop ==
  /\ main = "subscribing" /\ subscribed = Len(QueueList)
  /\ main' = "looping"
  /\ UNCHANGED <<subscribed, listeners, working, claimed, ctx, shuttingDown, waiter>>

\* Mutant: isShuttingDown is not looked at.
DispatchAllowedAlways == working < MaxPending

DispatchAllowed == ~shuttingDown /\ working < MaxPending

\* fetchAndDispatch, from the main loop or a listener, under fetchMu.
Dispatch ==
  /\ main = "looping" \/ listeners # {}
  /\ DispatchAllowed
  /\ claimed < MaxJobs
  /\ working' = working + 1
  /\ claimed' = claimed + 1
  /\ UNCHANGED <<main, subscribed, listeners, ctx, shuttingDown, waiter>>

\* The goroutine of a claimed job has completed or yielded.
JobEnds ==
  /\ working > 0
  /\ working' = working - 1
  /\ UNCHANGED <<main, subscribed, listeners, claimed, ctx, shuttingDown, waiter>>

\* Mutant: the loop listens to its context only.
ListenerMayEndOnContext == ctx = "done"

\* The context or the pool ends, or Start returned and closed the channel.
ListenerMayEnd == ctx = "done" \/ shuttingDown \/ main = "returned"

ListenerEnds(i) ==
  /\ i \in listeners
  /\ ListenerMayEnd
  /\ listeners' = listeners \ {i}
  /\ UNCHANGED <<main, subscribed, working, claimed, ctx, shuttingDown, waiter>>

CancelContext ==
  /\ ctx = "live"
  /\ ctx' = "done"
  /\ UNCHANGED <<main, subscribed, listeners, working, claimed, shuttingDown, waiter>>

\* The first Shutdown, under fetchMu; the waiter starts on its own.
Shutdown ==
  /\ ~shuttingDown
  /\ shuttingDown' = TRUE
  /\ UNCHANGED <<main, subscribed, listeners, working, claimed, ctx, waiter>>

\* runMainLoop sees the cancelled context and stops the pool.
StopOnCancel ==
  /\ main = "looping" /\ ctx = "done"
  /\ main' = "stopping"
  /\ shuttingDown' = TRUE
  /\ UNCHANGED <<subscribed, listeners, working, claimed, ctx, waiter>>

\* Stop has drained the pool or has run into ShutdownTimeout.
StopReturns ==
  /\ main = "stopping"
  /\ main' = "returned"
  /\ UNCHANGED <<subscribed, listeners, working, claimed, ctx, shuttingDown, waiter>>

\* runMainLoop sees shutdownCh.
LoopEnds ==
  /\ main = "looping" /\ shuttingDown
  /\ main' = "returned"
  /\ UNCHANGED <<subscribed, listeners, working, claimed, ctx, shuttingDown, waiter>>

WaitBegins ==
  /\ shuttingDown /\ waiter = "none"
  /\ waiter' = "waiting"
  /\ UNCHANGED <<main, subscribed, listeners, working, claimed, ctx, shuttingDown>>

WaitReturns ==
  /\ waiter = "waiting" /\ wgZero
  /\ waiter' = "done"
  /\ UNCHANGED <<main, subscribed, listeners, working, claimed, ctx, shuttingDown>>

MainStep == Start \/ Subscribe \/ SubscribeFails \/ EnterMainLoop
              \/ StopOnCancel \/ StopReturns \/ LoopEnds

Next ==
  \/ MainStep \/ Dispatch \/ JobEnds \/ CancelContext \/ Shutdown
  \/ WaitBegins \/ WaitReturns
  \/ \E i \in 1..Len(QueueList) : ListenerEnds(i)

Spec == Init /\ [][Next]_vars

\* Goroutines run and handlers return; nobody has to start or stop the pool.
Fairness ==
  /\ WF_vars(Subscribe \/ EnterMainLoop \/ StopOnCancel \/ StopReturns \/ LoopEnds)
  /\ WF_vars(JobEnds)
  /\ WF_vars(WaitBegins) /\ WF_vars(WaitReturns)
  /\ \A i \in 1..Len(QueueList) : WF_vars(ListenerEnds(i))

FairSpec == Spec /\ Fairness

-----------------------------------------------------------------------------
(* Properties.                                                             *)

\* Shutdown returns nil only when no claimed job is left, and none is claimed
\* later, although listeners and the main loop may still be running.
ShutdownMeansDrained == waiter = "done" => working = 0

\* A shutdown ends: the waiter closes shutdownDone and a running Start
\* returns, whatever Start was doing when it began.
ShutdownEnds ==
  /\ shuttingDown ~> waiter = "done"
  /\ main # "new" /\ shuttingDown ~> main = "returned"
=============================================================================
