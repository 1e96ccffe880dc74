---------------------------- MODULE ClaimProtocol ----------------------------
(***************************************************************************)
(* Worker pools sharing one job store: how a claim is fetched, kept alive  *)
(* by heartbeats, started, finished or yielded, and how it is lost.        *)
(*                                                                         *)
(* A goroutine is a pool and one of its MaxPending slots.  What happens    *)
(* inside a pool between claiming and starting (pipelines, semaphores,     *)
(* rate limits) is one phase here, "waiting".                              *)
(***************************************************************************)
EXTENDS JobStore

CONSTANTS
  Pools,              \* worker pools, in one process or several
  Slots,              \* the places of a pool's pending channel
  WorkerIDOf,         \* [Pools -> WorkerIDs]; a redeployed pool may share one
  StuckJobTimeout,    \* [Pools -> Int]; not positive: no lease and no rescue
  HeartbeatInterval,  \* [Pools -> Int]; not positive: no heartbeats
  DefaultMaxRetry,    \* MaxRetry of a job that has none: the worker's, or 3
  InsertChoices,      \* the jobs the clients enqueue
  RunDelays,          \* delays of retries and of rescheduling
  NoGoroutine,        \* no goroutine, for a running row whose holder is gone
  MaxFaults           \* bound on disturbances: crashes, stalls, operators...

Goroutines == Pools \X Slots

\* newWorkerPool replaces a heartbeat interval that is not below the timeout.
\* That pools which share a WorkerID have the same timeout is not enforced: a
\* deployment gives it to them, and HealthyClaimKept depends on it.
ASSUME PoolAssumption ==
  /\ WorkerIDOf \in [Pools -> WorkerIDs]
  /\ StuckJobTimeout \in [Pools -> Int]
  /\ HeartbeatInterval \in [Pools -> Int]
  /\ \A p \in Pools : StuckJobTimeout[p] > 0 => HeartbeatInterval[p] < StuckJobTimeout[p]
  /\ \A p, r \in Pools :
       WorkerIDOf[p] = WorkerIDOf[r] => StuckJobTimeout[p] = StuckJobTimeout[r]
  /\ InsertChoices \subseteq [queue : Queues, priority : Int, runAt : Int,
                              maxRetry : Nat, uniqueKey : Keys \cup {NoKey}]
  /\ RunDelays \subseteq Int
  /\ DefaultMaxRetry \in Nat \ {0}
  /\ NoGoroutine \notin Goroutines
  /\ MaxFaults \in Nat

VARIABLES
  claims,    \* the claim each goroutine works on, Idle when there is none
  pools,     \* per pool: its context and whether it is shutting down
  faults,    \* disturbances left
  replayed,  \* history: the jobs an operator has rescheduled
  rescues    \* history: how often each job was rescued

history == <<replayed, rescues>>
vars    == <<jobs, seq, queues, claims, pools, faults, replayed, rescues>>

\* The row fetched, with the state of the goroutine and its heartbeat.
\* lost: the heartbeat was refused and cancelled claimCtx.  beat: ticks until
\* the heartbeat ticker fires.  healthy: neither the goroutine nor its
\* connection to the store is stalled.
Claims ==
  [phase : {"waiting", "handling", "closing"}, job : JobIDs, worker : WorkerIDs,
   attempt : Nat \ {0}, maxRetry : Nat \ {0}, lost : BOOLEAN, beat : Int, healthy : BOOLEAN]

Idle == [phase |-> "idle"]

FreshPool == [ctx |-> "live", shuttingDown |-> FALSE]

\* The goroutine owns its claim until it has called setState.
Holding(g) == claims[g].phase \in {"waiting", "handling"}

\* The store would accept a state transition from this goroutine.
Owns(g) == Holding(g) /\ MatchesClaim(jobs[claims[g].job], claims[g])

\* claimCtx of startHeartbeat is done.
CtxDone(g) == claims[g].lost \/ pools[g[1]].ctx = "done"

\* A heartbeat goroutine serves this claim, and its ticker has fired.
Beating(g) ==
  /\ claims[g].phase # "idle"
  /\ HeartbeatInterval[g[1]] > 0
  /\ ~CtxDone(g)
BeatDue(g) == Beating(g) /\ claims[g].beat <= 0

Healthy(g) == Beating(g) /\ claims[g].healthy

\* One disturbance of the bounded number the environment may cause.
Disturb == faults > 0 /\ faults' = faults - 1

DisturbIf(cond) == IF cond THEN Disturb ELSE faults' = faults

Init ==
  /\ StoreInit
  /\ claims = [g \in Goroutines |-> Idle]
  /\ pools = [p \in Pools |-> FreshPool]
  /\ faults = MaxFaults
  /\ replayed = {}
  /\ rescues = [j \in JobIDs |-> 0]

-----------------------------------------------------------------------------
(* Clients.                                                                *)

Enqueue ==
  /\ \E c \in InsertChoices :
       JobInsert(c.queue, c.priority, c.runAt, c.maxRetry, c.uniqueKey)
  /\ UNCHANGED <<claims, pools, faults, history>>

-----------------------------------------------------------------------------
(* The pool: fetchAndDispatch and the goroutine it starts.                 *)

\* processRow: job-level overrides worker default; 0 means the default.
effectiveMaxRetry(row) == IF row.maxRetry > 0 THEN row.maxRetry ELSE DefaultMaxRetry

NewClaim(p, j) ==
  [phase |-> "waiting", job |-> j, worker |-> WorkerIDOf[p],
   attempt |-> jobs[j].attempt + 1, maxRetry |-> effectiveMaxRetry(jobs[j]),
   lost |-> FALSE, beat |-> HeartbeatInterval[p], healthy |-> TRUE]

\* A pool whose context is cancelled claims until the main loop calls Stop.
Fetch(p) ==
  /\ ~pools[p].shuttingDown
  /\ \E s \in Slots, q \in Queues, j \in JobIDs :
       /\ claims[<<p, s>>] = Idle
       /\ JobFetch(q, j, WorkerIDOf[p], StuckJobTimeout[p])
       /\ claims' = [claims EXCEPT ![<<p, s>>] = NewClaim(p, j)]
  /\ DisturbIf(pools[p].ctx = "done")
  /\ UNCHANGED <<pools, history>>

\* The handler starts whether or not the store still knows the claim.
Start(g) ==
  /\ claims[g].phase = "waiting"
  /\ JobMarkStarted(claims[g])
  /\ claims' = [claims EXCEPT ![g].phase = "handling"]
  /\ UNCHANGED <<pools, faults, history>>

\* setState: the goroutine tells the store once and never again.
SetState(g, newRow) ==
  /\ JobSetStateIfRunning(claims[g], newRow)
  /\ claims' = [claims EXCEPT ![g].phase = "closing"]

Yield(g) == SetState(g, Yielded(jobs[claims[g].job]))

\* A wait ends without a start: the claim was lost or the pool is stopping, or
\* else the lease of the job's pipeline was lost (distributedCtx).
YieldWaiting(g) ==
  /\ claims[g].phase = "waiting"
  /\ DisturbIf(~CtxDone(g) /\ ~pools[g[1]].shuttingDown)
  /\ Yield(g)
  /\ UNCHANGED <<pools, history>>

\* processRow after the handler was interrupted, for the same reasons.
YieldHandled(g) ==
  /\ claims[g].phase = "handling"
  /\ DisturbIf(~CtxDone(g))
  /\ Yield(g)
  /\ UNCHANGED <<pools, history>>

Complete(g) ==
  /\ claims[g].phase = "handling"
  /\ ~CtxDone(g)
  /\ SetState(g, Settled(jobs[claims[g].job], "completed", FALSE, 0))
  /\ UNCHANGED <<pools, faults, history>>

\* Mutant: one retry too many.
FailureStateOffByOne(claim, noRetry) ==
  IF noRetry \/ claim.attempt > claim.maxRetry THEN "discarded" ELSE "retryable"

\* The handler failed; noRetry: a DiscardError, or a policy without a retry.
FailureState(claim, noRetry) ==
  IF noRetry \/ claim.attempt >= claim.maxRetry THEN "discarded" ELSE "retryable"

Fail(g) ==
  /\ claims[g].phase = "handling"
  /\ ~CtxDone(g)
  /\ \E noRetry \in BOOLEAN, delay \in RunDelays :
       SetState(g, Settled(jobs[claims[g].job],
                           FailureState(claims[g], noRetry), TRUE, delay))
  /\ UNCHANGED <<pools, faults, history>>

\* The deferred calls: stop the heartbeat, leave the pending channel.
Close(g) ==
  /\ claims[g].phase = "closing"
  /\ claims' = [claims EXCEPT ![g] = Idle]
  /\ UNCHANGED <<jobs, seq, queues, pools, faults, history>>

-----------------------------------------------------------------------------
(* startHeartbeat, still running while the goroutine closes.               *)

Heartbeat(g) ==
  /\ BeatDue(g)
  /\ JobHeartbeat(claims[g], StuckJobTimeout[g[1]])
  /\ claims' = IF MatchesClaim(jobs[claims[g].job], claims[g])
               THEN [claims EXCEPT ![g].beat = HeartbeatInterval[g[1]]]
               ELSE [claims EXCEPT ![g].lost = TRUE]
  /\ UNCHANGED <<pools, faults, history>>

\* The store cannot be reached: the error is reported, the loop continues.
HeartbeatError(g) ==
  /\ BeatDue(g)
  /\ ~claims[g].healthy
  /\ claims' = [claims EXCEPT ![g].beat = HeartbeatInterval[g[1]]]
  /\ UNCHANGED <<jobs, seq, queues, pools, faults, history>>

\* rescueStuck, from the main loop, one queue after the other.
Rescue(p, q) ==
  /\ StuckJobTimeout[p] > 0
  /\ ~pools[p].shuttingDown
  /\ JobRescueStuck(q, StuckJobTimeout[p])
  /\ rescues' = [j \in JobIDs |->
       IF Stuck(jobs[j], StuckJobTimeout[p]) /\ jobs[j].queue = q
       THEN rescues[j] + 1 ELSE rescues[j]]
  /\ UNCHANGED <<claims, pools, faults, replayed>>

-----------------------------------------------------------------------------
(* Shutdown, cancellation and faults.                                      *)

\* Stop and Shutdown: no more claims, running handlers go on.
Shutdown(p) ==
  /\ ~pools[p].shuttingDown
  /\ DisturbIf(pools[p].ctx = "live")
  /\ pools' = [pools EXCEPT ![p].shuttingDown = TRUE]
  /\ UNCHANGED <<jobs, seq, queues, claims, history>>

\* The context given to Start is cancelled; runMainLoop then calls Stop.
CancelContext(p) ==
  /\ Disturb
  /\ pools[p].ctx = "live"
  /\ pools' = [pools EXCEPT ![p].ctx = "done"]
  /\ UNCHANGED <<jobs, seq, queues, claims, history>>

\* A drained pool is replaced by a new one with the same configuration.
Restart(p) ==
  /\ pools[p].shuttingDown
  /\ \A s \in Slots : claims[<<p, s>>] = Idle
  /\ pools' = [pools EXCEPT ![p] = FreshPool]
  /\ UNCHANGED <<jobs, seq, queues, claims, faults, history>>

\* The process dies and is started again.
Crash(p) ==
  /\ Disturb
  /\ claims' = [g \in Goroutines |-> IF g[1] = p THEN Idle ELSE claims[g]]
  /\ pools' = [pools EXCEPT ![p] = FreshPool]
  /\ UNCHANGED <<jobs, seq, queues, history>>

\* The goroutine is suspended or partitioned from the store for a while.
Stall(g) ==
  /\ Disturb
  /\ Healthy(g)
  /\ claims' = [claims EXCEPT ![g].healthy = FALSE]
  /\ UNCHANGED <<jobs, seq, queues, pools, history>>

\* setState's call fails with an error other than ErrStaleClaim.
SetStateError(g) ==
  /\ Disturb
  /\ Holding(g)
  /\ claims' = [claims EXCEPT ![g].phase = "closing"]
  /\ UNCHANGED <<jobs, seq, queues, pools, history>>

-----------------------------------------------------------------------------
(* Operators: admin API, Maintenance, Client.Cancel.                       *)

Cancel(j) ==
  /\ Disturb
  /\ JobCancel(j)
  /\ UNCHANGED <<claims, pools, history>>

Delete(j) ==
  /\ Disturb
  /\ JobDelete(j)
  /\ UNCHANGED <<claims, pools, history>>

Reschedule(j) ==
  /\ Disturb
  /\ \E delay \in RunDelays : JobReschedule(j, delay)
  /\ replayed' = replayed \cup {j}
  /\ UNCHANGED <<claims, pools, rescues>>

Pause(q) ==
  /\ Disturb
  /\ queues[q] # "paused"
  /\ QueuePause(q)
  /\ UNCHANGED <<claims, pools, history>>

Resume(q) ==
  /\ queues[q] = "paused"
  /\ QueueResume(q)
  /\ UNCHANGED <<claims, pools, faults, history>>

-----------------------------------------------------------------------------
\* A healthy heartbeat goroutine beats before the tick is over.
Tick ==
  /\ \A g \in Goroutines : ~(Healthy(g) /\ BeatDue(g))
  /\ Elapse
  /\ claims' = [g \in Goroutines |->
       IF Beating(g) /\ claims[g].beat > 0
       THEN [claims[g] EXCEPT !.beat = @ - 1] ELSE claims[g]]
  /\ UNCHANGED <<pools, faults, history>>

GoroutineStep(g) ==
  \/ Start(g) \/ YieldWaiting(g) \/ YieldHandled(g) \/ Complete(g) \/ Fail(g)
  \/ Close(g) \/ Heartbeat(g) \/ HeartbeatError(g) \/ Stall(g) \/ SetStateError(g)

PoolStep(p) ==
  \/ Fetch(p) \/ Shutdown(p) \/ CancelContext(p) \/ Restart(p) \/ Crash(p)
  \/ \E q \in Queues : Rescue(p, q)

OperatorStep ==
  \/ \E j \in JobIDs : Cancel(j) \/ Delete(j) \/ Reschedule(j)
  \/ \E q \in Queues : Pause(q) \/ Resume(q)

Next ==
  \/ Enqueue
  \/ \E g \in Goroutines : GoroutineStep(g)
  \/ \E p \in Pools : PoolStep(p)
  \/ OperatorStep
  \/ Tick

Spec == Init /\ [][Next]_vars

\* Time passes, every loop of a pool takes its turn, every handler returns,
\* the main loop sees its cancelled context, stopped pools are replaced and
\* paused queues resumed.  Faults and operators owe nothing.
Fairness ==
  /\ WF_vars(Tick)
  /\ \A q \in Queues : WF_vars(Resume(q))
  /\ \A p \in Pools :
       /\ WF_vars(Fetch(p))
       /\ WF_vars(pools[p].ctx = "done" /\ Shutdown(p))
       /\ WF_vars(Restart(p))
       /\ \A q \in Queues : WF_vars(Rescue(p, q))
  /\ \A g \in Goroutines :
       /\ WF_vars(Start(g) \/ YieldWaiting(g))
       /\ WF_vars(Complete(g) \/ Fail(g) \/ YieldHandled(g))
       /\ WF_vars(Close(g))
       /\ WF_vars(Heartbeat(g))

FairSpec == Spec /\ Fairness

-----------------------------------------------------------------------------
(* Properties.                                                             *)

\* Every variable stays in its type: rows, claims and pools are well formed
\* whatever the order of store operations.
TypeOK ==
  /\ StoreTypeOK
  /\ claims \in [Goroutines -> Claims \cup {Idle}]
  /\ pools \in [Pools -> [ctx : {"live", "done"}, shuttingDown : BOOLEAN]]
  /\ faults \in 0..MaxFaults
  /\ replayed \subseteq JobIDs
  /\ rescues \in [JobIDs -> Nat]

\* Why fencing works: the claims goroutines still hold on one job carry
\* different attempt numbers, none above the row's, and ids are not reused.
\* A new claim exceeds them all; a yield lowers the row's attempt only when
\* the row's attempt is the yielder's own.
DistinctTokens ==
  /\ \A j \in JobIDs : Exists(j) => j <= seq
  /\ \A g \in Goroutines : claims[g].phase # "idle" => claims[g].job <= seq
  /\ \A g \in Goroutines :
       LET c == claims[g] IN
       Holding(g) /\ Exists(c.job) =>
         /\ c.attempt <= jobs[c.job].attempt
         /\ c.maxRetry = effectiveMaxRetry(jobs[c.job])
  /\ \A g, h \in Goroutines :
       Holding(g) /\ Holding(h) /\ g # h /\ claims[g].job = claims[h].job
         /\ Exists(claims[g].job) => claims[g].attempt # claims[h].attempt

\* Fencing: at any moment the store accepts JobSetStateIfRunning for a job
\* from one goroutine at most, although Yield gives attempt numbers back and
\* pools may share a WorkerID.
SingleOwner ==
  \A g, h \in Goroutines :
    Owns(g) /\ Owns(h) /\ claims[g].job = claims[h].job => g = h

\* A claim whose heartbeats reach the store keeps its job: no rescue hands it
\* to a second handler (README: "rescue does not duplicate healthy
\* long-running work").  Operators may still take it away.
HealthyClaimKept ==
  \A g \in Goroutines :
    LET j == claims[g].job IN
    Holding(g) /\ Healthy(g) /\ StuckJobTimeout[g[1]] > 0
      => ~Exists(j) \/ j \in replayed \/ Owns(g)

\* Attempts are charged once and for a reason: an attempt is a recorded error,
\* the completion, a rescue or the one in progress.  A yielded claim, however
\* it interleaves with rescues and other claims, is none of them.
AttemptsAccounted ==
  \A j \in JobIDs : Exists(j) /\ j \notin replayed =>
    jobs[j].attempt = jobs[j].errors + rescues[j]
      + (IF jobs[j].state \in {"running", "completed"} THEN 1 ELSE 0)

\* Retries are bounded: unless an operator replays it, a job records at most
\* MaxRetry errors, whatever rescues, yields and crashes happened between.
RetryBudget ==
  \A j \in JobIDs :
    Exists(j) /\ j \notin replayed => jobs[j].errors <= effectiveMaxRetry(jobs[j])

\* One active job per unique key, for jobs no operator has rescheduled; one
\* job at all per permanent key, rescheduled or not (findUniqueJob).
UniqueKeys ==
  \A i, j \in JobIDs :
    /\ i # j /\ Exists(i) /\ Exists(j)
    /\ jobs[i].uniqueKey = jobs[j].uniqueKey /\ jobs[i].uniqueKey # NoKey
    => /\ jobs[i].uniqueKey \notin PermanentKeys
       /\ Terminal(i) \/ Terminal(j) \/ i \in replayed \/ j \in replayed

\* What Shutdown says of claims with a running handler (worker.go:627,
\* "Active jobs continue renewing their leases while the pool drains"): the
\* lease of one whose heartbeats would reach the store does not run out.
DrainKeepsLeases ==
  \A g \in Goroutines, p \in Pools :
    /\ claims[g].phase = "handling" /\ claims[g].healthy /\ ~claims[g].lost
    /\ pools[g[1]].shuttingDown /\ Owns(g)
    => ~Stuck(jobs[claims[g].job], StuckJobTimeout[p])

\* No job is stranded: whatever crashes, stalls, failed state changes, lost
\* claims and shutdowns happen, every job is settled, cancelled or deleted.
EveryJobSettles ==
  \A j \in JobIDs : Exists(j) ~> ~Active(j)

-----------------------------------------------------------------------------
(* ClaimProtocol implements JobOwnership: fencing tokens stand for owners. *)

StatusOf(j) ==
  CASE ~Exists(j)  -> IF j > seq THEN "absent" ELSE "deleted"
    [] Running(j)  -> "held"
    [] Terminal(j) -> "done"
    [] OTHER       -> "queued"

OwnerOf(j) ==
  IF \E g \in Goroutines : Owns(g) /\ claims[g].job = j
  THEN CHOOSE g \in Goroutines : Owns(g) /\ claims[g].job = j
  ELSE NoGoroutine

\* The attempt of a running row is in progress and not charged yet.
ChargedTo(j) ==
  IF ~Exists(j) THEN 0
  ELSE IF Running(j) THEN jobs[j].attempt - 1 ELSE jobs[j].attempt

Ownership == INSTANCE JobOwnership WITH
  Jobs    <- JobIDs,
  Owners  <- Goroutines,
  NoOwner <- NoGoroutine,
  status  <- [j \in JobIDs |-> StatusOf(j)],
  owner   <- [j \in JobIDs |-> OwnerOf(j)],
  charged <- [j \in JobIDs |-> ChargedTo(j)]

\* Every behaviour of pools and store is one of JobOwnership: an outcome is
\* recorded by the job's only owner and once, a yield costs no attempt, and
\* rescue or rescheduling costs the attempt it takes away.
ImplementsOwnership == Ownership!AbsSpec
=============================================================================
