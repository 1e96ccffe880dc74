---------------------------- MODULE ClaimProofs ----------------------------
(* Theorems about ClaimProtocol, for any number of jobs, keys, pools and   *)
(* slots, any timeouts and any retry budget: the types, the fence, how     *)
(* attempts are charged, unique keys, healthy claims, and that the         *)
(* protocol implements JobOwnership.                                       *)
EXTENDS ClaimProtocol, TLAPS

-----------------------------------------------------------------------------
(* The store operations preserve the type of the job table.                *)

\* A row that is in some job state is a row.
LEMMA RowType ==
  ASSUME StoreTypeOK, NEW j \in JobIDs, Exists(j)
  PROVE  jobs[j] \in Rows
  BY DEF StoreTypeOK, Exists, NoRow

\* An insert adds a row of the row type and opens its queue (JobInsertMany).
LEMMA JobInsertType ==
  ASSUME StoreTypeOK, NEW c \in InsertChoices,
         JobInsert(c.queue, c.priority, c.runAt, c.maxRetry, c.uniqueKey)
  PROVE  StoreTypeOK'
  <1>1. c \in [queue : Queues, priority : Int, runAt : Int,
               maxRetry : Nat, uniqueKey : Keys \cup {NoKey}]
    BY Zenon, PoolAssumption
  <1>2. NewRow(c.queue, c.priority, c.runAt, c.maxRetry, c.uniqueKey) \in Rows
    BY Zenon, <1>1, StoreAssumption DEF NewRow, Rows, JobStates, Times
  <1>3. jobs' \in [JobIDs -> Rows \cup {NoRow}]
    BY Zenon, <1>2 DEF JobInsert, StoreTypeOK
  <1>4. seq' \in 0..MaxJobs
    BY StoreAssumption DEF JobInsert, StoreTypeOK
  <1>5. queues' \in [Queues -> {"missing", "open", "paused"}]
    BY Zenon, <1>1 DEF JobInsert, StoreTypeOK, ensureQueue
  <1>q. QED BY Zenon, <1>3, <1>4, <1>5 DEF StoreTypeOK

\* A claim turns a row into a row: state, attempt, lease and worker keep
\* their types (JobFetchBatch).
LEMMA ClaimedType ==
  ASSUME NEW row \in Rows, NEW w \in WorkerIDs, NEW d \in Int
  PROVE  Claimed(row, w, d) \in Rows
  <1> DEFINE r == Claimed(row, w, d)
  <1>1. /\ r.state \in JobStates /\ r.attempt \in Nat
        /\ r.attemptedAt \in Times /\ r.lease \in Times
        /\ r.worker \in WorkerIDs \cup {NoWorker} /\ r.started \in BOOLEAN
    BY DEF Claimed, Rows, JobStates, Times
  <1>q. QED BY Zenon, <1>1 DEF Claimed, Rows

\* A fetch claims one row and promotes the others that are due; the table
\* keeps its type (JobFetchBatch).
LEMMA JobFetchType ==
  ASSUME StoreTypeOK, NEW q \in Queues, NEW j \in JobIDs, NEW w \in WorkerIDs,
         NEW d \in Int, JobFetch(q, j, w, d)
  PROVE  StoreTypeOK'
  <1>1. ASSUME NEW i \in JobIDs, Due(i, q)
        PROVE  jobs[i] \in Rows
    BY Zenon, <1>1, RowType DEF Due, Exists
  <1>2. Claimed(jobs[j], w, d) \in Rows
    BY Zenon, <1>1, ClaimedType DEF JobFetch
  <1>3. ASSUME NEW i \in JobIDs, Due(i, q)
        PROVE  [jobs[i] EXCEPT !.state = "available"] \in Rows
    BY <1>1, <1>3 DEF Rows, JobStates
  <1>q. QED BY Zenon, <1>2, <1>3 DEF JobFetch, StoreTypeOK

\* Marking a claim started touches the claimed row or nothing
\* (JobMarkStarted).
LEMMA JobMarkStartedType ==
  ASSUME StoreTypeOK, NEW c, c.job \in JobIDs, JobMarkStarted(c)
  PROVE  StoreTypeOK'
  <1>1. CASE MatchesClaim(jobs[c.job], c)
    <2>1. jobs[c.job] \in Rows
      BY Zenon, <1>1, RowType DEF MatchesClaim, Exists
    <2>2. [jobs[c.job] EXCEPT !.started = TRUE] \in Rows
      BY Zenon, <2>1 DEF Rows
    <2>q. QED BY Zenon, <1>1, <2>2 DEF JobMarkStarted, StoreTypeOK
  <1>2. CASE ~MatchesClaim(jobs[c.job], c)
    BY Zenon, <1>2 DEF JobMarkStarted, StoreTypeOK
  <1>q. QED BY Zenon, <1>1, <1>2

\* A heartbeat sets the lease of the claimed row or nothing (JobHeartbeat).
LEMMA JobHeartbeatType ==
  ASSUME StoreTypeOK, NEW c, c.job \in JobIDs, NEW d \in Int, JobHeartbeat(c, d)
  PROVE  StoreTypeOK'
  <1>1. CASE MatchesClaim(jobs[c.job], c)
    <2>1. jobs[c.job] \in Rows
      BY Zenon, <1>1, RowType DEF MatchesClaim, Exists
    <2>2. [jobs[c.job] EXCEPT !.lease = d] \in Rows
      BY Zenon, <2>1 DEF Rows, Times
    <2>q. QED BY Zenon, <1>1, <2>2 DEF JobHeartbeat, StoreTypeOK
  <1>2. CASE ~MatchesClaim(jobs[c.job], c)
    BY Zenon, <1>2 DEF JobHeartbeat, StoreTypeOK
  <1>q. QED BY Zenon, <1>1, <1>2

\* A yielded row is a row: a claimed row has an attempt to give back (the
\* Yield branch of JobSetStateIfRunning).
LEMMA YieldedType ==
  ASSUME NEW row \in Rows, row.attempt >= 1
  PROVE  Yielded(row) \in Rows
  <1> DEFINE r == Yielded(row)
  <1>1. /\ r.state \in JobStates /\ r.attempt \in Nat
        /\ r.attemptedAt \in Times /\ r.lease \in Times
        /\ r.worker \in WorkerIDs \cup {NoWorker}
    BY DEF Yielded, Rows, JobStates, Times
  <1>q. QED BY Zenon, <1>1 DEF Yielded, Rows

\* A row settled as completed, discarded or retryable is a row: "retryable"
\* is never stored (JobSetStateIfRunning).
LEMMA SettledType ==
  ASSUME NEW row \in Rows, NEW state \in {"completed", "discarded", "retryable"},
         NEW failed \in BOOLEAN, NEW retryAt \in Int
  PROVE  Settled(row, state, failed, retryAt) \in Rows
  <1> DEFINE r == Settled(row, state, failed, retryAt)
  <1>1. r.state \in JobStates /\ r.runAt \in Int /\ r.errors \in Nat
    BY DEF Settled, Rows, JobStates, TerminalStates
  <1>2. r.finalized \in BOOLEAN
    BY Zenon DEF Settled, Rows
  <1>3. r.lease \in Times /\ r.worker \in WorkerIDs \cup {NoWorker}
    BY Zenon DEF Settled, Rows, Times
  <1>q. QED BY ZenonT(30), <1>1, <1>2, <1>3 DEF Settled, Rows

\* A fenced state change writes a row or nothing (JobSetStateIfRunning).
LEMMA JobSetStateType ==
  ASSUME StoreTypeOK, NEW c, c.job \in JobIDs, NEW row,
         jobs[c.job] \in Rows /\ MatchesClaim(jobs[c.job], c) => row \in Rows,
         JobSetStateIfRunning(c, row)
  PROVE  StoreTypeOK'
  <1>1. CASE MatchesClaim(jobs[c.job], c)
    <2>1. jobs[c.job] \in Rows
      BY Zenon, <1>1, RowType DEF MatchesClaim, Exists
    <2>q. QED BY Zenon, <1>1, <2>1 DEF JobSetStateIfRunning, StoreTypeOK
  <1>2. CASE ~MatchesClaim(jobs[c.job], c)
    BY Zenon, <1>2 DEF JobSetStateIfRunning, StoreTypeOK
  <1>q. QED BY Zenon, <1>1, <1>2

\* A rescued row is a row (JobRescueStuck).
LEMMA RescuedType ==
  ASSUME NEW row \in Rows
  PROVE  Rescued(row) \in Rows
  <1> DEFINE r == Rescued(row)
  <1>1. /\ r.state \in JobStates
        /\ r.attemptedAt \in Times /\ r.lease \in Times
        /\ r.worker \in WorkerIDs \cup {NoWorker}
    BY Zenon DEF Rescued, Rows, JobStates, Times
  <1>q. QED BY Zenon, <1>1 DEF Rescued, Rows

\* Rescuing every stuck row of a queue keeps the type of the table
\* (JobRescueStuck).
LEMMA JobRescueStuckType ==
  ASSUME StoreTypeOK, NEW q \in Queues, NEW t \in Int, JobRescueStuck(q, t)
  PROVE  StoreTypeOK'
  <1>1. ASSUME NEW j \in JobIDs, Stuck(jobs[j], t)
        PROVE  Rescued(jobs[j]) \in Rows
    BY Zenon, <1>1, RowType, RescuedType DEF Stuck, Exists
  <1>q. QED BY Zenon, <1>1 DEF JobRescueStuck, StoreTypeOK

\* Cancelling keeps the type of the table (JobCancel).
LEMMA JobCancelType ==
  ASSUME StoreTypeOK, NEW j \in JobIDs, JobCancel(j)
  PROVE  StoreTypeOK'
  <1>1. jobs[j] \in Rows
    BY Zenon, RowType DEF JobCancel, Exists
  <1>2. [jobs[j] EXCEPT !.state = "cancelled", !.finalized = TRUE] \in Rows
    BY Zenon, <1>1 DEF Rows, JobStates, TerminalStates
  <1>3. jobs' = [jobs EXCEPT ![j] = [jobs[j] EXCEPT !.state = "cancelled", !.finalized = TRUE]]
    BY Zenon DEF JobCancel, StoreTypeOK
  <1>q. QED BY <1>2, <1>3 DEF JobCancel, StoreTypeOK

\* Rescheduling, from whatever state, keeps the type of the table
\* (JobReschedule).
LEMMA JobRescheduleType ==
  ASSUME StoreTypeOK, NEW j \in JobIDs, NEW t \in Int, JobReschedule(j, t)
  PROVE  StoreTypeOK'
  <1>1. jobs[j] \in Rows
    BY Zenon, RowType DEF JobReschedule
  <1>2. [jobs[j] EXCEPT !.state = "scheduled", !.runAt = t] \in Rows
    BY Zenon, <1>1 DEF Rows, JobStates
  <1>3. jobs' = [jobs EXCEPT ![j] = [jobs[j] EXCEPT !.state = "scheduled", !.runAt = t]]
    BY Zenon DEF JobReschedule, StoreTypeOK
  <1>q. QED BY <1>2, <1>3 DEF JobReschedule, StoreTypeOK

\* The passing of time keeps the type of the table: a nil time stays nil.
LEMMA ElapseType ==
  ASSUME StoreTypeOK, Elapse
  PROVE  StoreTypeOK'
  <1>1. ASSUME NEW j \in JobIDs
        PROVE  Aged(jobs[j]) \in Rows \cup {NoRow}
    <2>1. CASE jobs[j].state = "none"
      BY Zenon, <2>1 DEF Aged, StoreTypeOK
    <2>2. CASE jobs[j].state # "none"
      <3> DEFINE r == Aged(jobs[j])
      <3>1. jobs[j] \in Rows
        BY Zenon, <2>2, RowType DEF Exists
      <3>2. r.runAt \in Int /\ r.attemptedAt \in Times /\ r.lease \in Times
        BY <2>2, <3>1, StoreAssumption DEF Aged, Earlier, Rows, Times
      <3>q. QED BY Zenon, <2>2, <3>1, <3>2 DEF Aged, Rows
    <2>q. QED BY Zenon, <2>1, <2>2
  <1>q. QED BY Zenon, <1>1 DEF Elapse, StoreTypeOK

-----------------------------------------------------------------------------
(* Type correctness.                                                       *)

\* A goroutine is a pool and one of its execution slots (fetchAndDispatch).
LEMMA GoroutineParts ==
  ASSUME NEW g \in Goroutines
  PROVE  g[1] \in Pools /\ g[2] \in Slots /\ g = <<g[1], g[2]>>
  BY DEF Goroutines

\* A goroutine that is not idle holds a claim record (fetchAndDispatch).
LEMMA ClaimType ==
  ASSUME TypeOK, NEW g \in Goroutines, claims[g].phase # "idle"
  PROVE  claims[g] \in Claims
  BY DEF TypeOK, Idle

\* Replacing one goroutine's claim keeps the type of the claims
\* (fetchAndDispatch).
LEMMA ClaimUpdateType ==
  ASSUME TypeOK, NEW g \in Goroutines, NEW c \in Claims \cup {Idle},
         claims' = [claims EXCEPT ![g] = c]
  PROVE  claims' \in [Goroutines -> Claims \cup {Idle}]
  BY Zenon DEF TypeOK

\* Moving one goroutine's claim to another phase keeps the type of the claims
\* (processRow).
LEMMA PhaseUpdateType ==
  ASSUME TypeOK, NEW g \in Goroutines, claims[g].phase # "idle",
         NEW phase \in {"waiting", "handling", "closing"},
         claims' = [claims EXCEPT ![g].phase = phase]
  PROVE  claims' \in [Goroutines -> Claims \cup {Idle}]
  <1>1. [claims[g] EXCEPT !.phase = phase] \in Claims
    BY ClaimType DEF Claims
  <1>q. QED BY Zenon, <1>1 DEF TypeOK

\* The initial state, an empty table and fresh pools, is well typed.
LEMMA InitType == Init => TypeOK
  BY StoreAssumption, PoolAssumption
  DEF Init, TypeOK, StoreInit, StoreTypeOK, JobIDs, FreshPool

\* A setState call that ends a claim keeps every variable typed (setState).
LEMMA SetStateTypeOK ==
  ASSUME TypeOK, NEW g \in Goroutines, Holding(g), NEW row,
         jobs[claims[g].job] \in Rows /\ MatchesClaim(jobs[claims[g].job], claims[g])
           => row \in Rows,
         SetState(g, row), faults' \in 0..MaxFaults, UNCHANGED <<pools, history>>
  PROVE  TypeOK'
  <1>1. claims[g].phase # "idle"
    BY Zenon DEF Holding
  <1>2. claims[g].job \in JobIDs
    BY Zenon, <1>1, ClaimType DEF Claims
  <1>3. StoreTypeOK'
    BY Zenon, <1>2, JobSetStateType DEF SetState, TypeOK
  <1>4. claims' \in [Goroutines -> Claims \cup {Idle}]
    BY Zenon, <1>1, PhaseUpdateType DEF SetState
  <1>q. QED BY Zenon, <1>3, <1>4 DEF TypeOK, history

\* The steps of a dispatched goroutine keep the types: start, finish, yield,
\* heartbeat and their failures (processRow, startHeartbeat).
LEMMA GoroutineStepType ==
  ASSUME TypeOK, NEW g \in Goroutines, GoroutineStep(g)
  PROVE  TypeOK'
  <1> DEFINE c == claims[g]
  <1> USE GoroutineParts
  <1>0. ASSUME c.phase # "idle" PROVE c \in Claims /\ c.job \in JobIDs
    BY Zenon, <1>0, ClaimType DEF Claims
  <1>y. ASSUME c.phase # "idle", jobs[c.job] \in Rows, MatchesClaim(jobs[c.job], c)
        PROVE  Yielded(jobs[c.job]) \in Rows
    <2>1. jobs[c.job].attempt >= 1
      BY <1>0, <1>y DEF MatchesClaim, Claims
    <2>q. QED BY Zenon, <1>y, <2>1, YieldedType
  <1>1. CASE Start(g)
    <2>1. c.phase # "idle" BY Zenon, <1>1 DEF Start
    <2>2. StoreTypeOK'
      BY Zenon, <1>0, <1>1, <2>1, JobMarkStartedType DEF Start, TypeOK
    <2>3. claims' \in [Goroutines -> Claims \cup {Idle}]
      BY Zenon, <1>1, <2>1, PhaseUpdateType DEF Start
    <2>q. QED BY Zenon, <1>1, <2>2, <2>3 DEF Start, TypeOK, history
  <1>2. CASE YieldWaiting(g)
    <2>1. faults' \in 0..MaxFaults
      BY <1>2, PoolAssumption DEF YieldWaiting, DisturbIf, Disturb, TypeOK
    <2>q. QED BY Zenon, <1>2, <1>y, <2>1, SetStateTypeOK DEF YieldWaiting, Yield, Holding
  <1>3. CASE YieldHandled(g)
    <2>1. faults' \in 0..MaxFaults
      BY <1>3, PoolAssumption DEF YieldHandled, DisturbIf, Disturb, TypeOK
    <2>q. QED BY Zenon, <1>3, <1>y, <2>1, SetStateTypeOK DEF YieldHandled, Yield, Holding
  <1>4. CASE Complete(g)
    <2>1. jobs[c.job] \in Rows => Settled(jobs[c.job], "completed", FALSE, 0) \in Rows
      <3>1. 0 \in Int /\ FALSE \in BOOLEAN OBVIOUS
      <3>q. QED BY <3>1, SettledType, Zenon
    <2>q. QED BY Zenon, <1>4, <2>1, SetStateTypeOK DEF Complete, Holding, TypeOK
  <1>5. CASE Fail(g)
    <2>1. PICK noRetry \in BOOLEAN, delay \in RunDelays :
            SetState(g, Settled(jobs[c.job], FailureState(c, noRetry), TRUE, delay))
      BY Zenon, <1>5 DEF Fail
    <2>2. FailureState(c, noRetry) \in {"completed", "discarded", "retryable"}
      BY Zenon DEF FailureState
    <2>3. jobs[c.job] \in Rows
            => Settled(jobs[c.job], FailureState(c, noRetry), TRUE, delay) \in Rows
      BY Zenon, <2>2, SettledType, PoolAssumption
    <2>q. QED BY Zenon, <1>5, <2>1, <2>3, SetStateTypeOK DEF Fail, Holding, TypeOK
  <1>6. CASE Close(g)
    <2>1. claims' \in [Goroutines -> Claims \cup {Idle}]
      BY Zenon, <1>6, ClaimUpdateType DEF Close
    <2>q. QED BY Zenon, <1>6, <2>1 DEF Close, TypeOK, StoreTypeOK, history
  <1>7. CASE Heartbeat(g)
    <2>1. c.phase # "idle" BY Zenon, <1>7 DEF Heartbeat, BeatDue, Beating
    <2>2. StoreTypeOK'
      BY Zenon, <1>0, <1>7, <2>1, JobHeartbeatType, PoolAssumption DEF Heartbeat, TypeOK
    <2>3. [c EXCEPT !.beat = HeartbeatInterval[g[1]]] \in Claims
      BY Zenon, <1>0, <2>1, PoolAssumption DEF Claims
    <2>4. [c EXCEPT !.lost = TRUE] \in Claims
      BY Zenon, <1>0, <2>1 DEF Claims
    <2>5. claims' \in [Goroutines -> Claims \cup {Idle}]
      BY Zenon, <1>7, <2>3, <2>4 DEF Heartbeat, TypeOK
    <2>q. QED BY Zenon, <1>7, <2>2, <2>5 DEF Heartbeat, TypeOK, history
  <1>8. CASE HeartbeatError(g)
    <2>1. c.phase # "idle" BY Zenon, <1>8 DEF HeartbeatError, BeatDue, Beating
    <2>2. [c EXCEPT !.beat = HeartbeatInterval[g[1]]] \in Claims
      BY Zenon, <1>0, <2>1, PoolAssumption DEF Claims
    <2>3. claims' \in [Goroutines -> Claims \cup {Idle}]
      BY Zenon, <1>8, <2>2 DEF HeartbeatError, TypeOK
    <2>q. QED BY Zenon, <1>8, <2>3 DEF HeartbeatError, TypeOK, StoreTypeOK, history
  <1>9. CASE Stall(g)
    <2>1. c.phase # "idle" BY Zenon, <1>9 DEF Stall, Healthy, Beating
    <2>2. [c EXCEPT !.healthy = FALSE] \in Claims
      BY Zenon, <1>0, <2>1 DEF Claims
    <2>3. claims' \in [Goroutines -> Claims \cup {Idle}]
      BY Zenon, <1>9, <2>2 DEF Stall, TypeOK
    <2>4. faults' \in 0..MaxFaults
      BY <1>9, PoolAssumption DEF Stall, Disturb, TypeOK
    <2>q. QED BY Zenon, <1>9, <2>3, <2>4 DEF Stall, TypeOK, StoreTypeOK, history
  <1>10. CASE SetStateError(g)
    <2>1. c.phase # "idle" BY Zenon, <1>10 DEF SetStateError, Holding
    <2>2. claims' \in [Goroutines -> Claims \cup {Idle}]
      BY Zenon, <1>10, <2>1, PhaseUpdateType DEF SetStateError
    <2>3. faults' \in 0..MaxFaults
      BY <1>10, PoolAssumption DEF SetStateError, Disturb, TypeOK
    <2>q. QED BY Zenon, <1>10, <2>2, <2>3 DEF SetStateError, TypeOK, StoreTypeOK, history
  <1>q. QED
    BY Zenon, <1>1, <1>2, <1>3, <1>4, <1>5, <1>6, <1>7, <1>8, <1>9, <1>10 DEF GoroutineStep

\* The steps of a pool keep the types: fetch, rescue, shutdown, cancellation,
\* restart and crash (fetchAndDispatch, rescueStuck, Shutdown).
LEMMA PoolStepType ==
  ASSUME TypeOK, NEW p \in Pools, PoolStep(p)
  PROVE  TypeOK'
  <1> DEFINE PoolType == [Pools -> [ctx : {"live", "done"}, shuttingDown : BOOLEAN]]
  <1>0. FreshPool \in [ctx : {"live", "done"}, shuttingDown : BOOLEAN]
    BY Zenon DEF FreshPool
  <1>1. CASE Fetch(p)
    <2>1. PICK s \in Slots, q \in Queues, j \in JobIDs :
            /\ claims[<<p, s>>] = Idle
            /\ JobFetch(q, j, WorkerIDOf[p], StuckJobTimeout[p])
            /\ claims' = [claims EXCEPT ![<<p, s>>] = NewClaim(p, j)]
      BY Zenon, <1>1 DEF Fetch
    <2>2. StoreTypeOK'
      BY Zenon, <2>1, JobFetchType, PoolAssumption DEF TypeOK
    <2>3. jobs[j] \in Rows
      BY Zenon, <2>1, RowType DEF JobFetch, Due, Exists, TypeOK
    <2>4. effectiveMaxRetry(jobs[j]) \in Nat \ {0}
      BY <2>3, PoolAssumption DEF effectiveMaxRetry, Rows
    <2>5. NewClaim(p, j) \in Claims
      BY <2>3, <2>4, PoolAssumption DEF NewClaim, Claims, Rows
    <2>6. claims' \in [Goroutines -> Claims \cup {Idle}]
      BY Zenon, <2>1, <2>5 DEF TypeOK
    <2>7. faults' \in 0..MaxFaults
      BY <1>1, PoolAssumption DEF Fetch, DisturbIf, Disturb, TypeOK
    <2>q. QED BY Zenon, <1>1, <2>2, <2>6, <2>7 DEF Fetch, TypeOK, history
  <1>2. CASE Shutdown(p)
    <2>1. pools' \in PoolType
      BY Zenon, <1>2 DEF Shutdown, TypeOK
    <2>2. faults' \in 0..MaxFaults
      BY <1>2, PoolAssumption DEF Shutdown, DisturbIf, Disturb, TypeOK
    <2>q. QED BY Zenon, <1>2, <2>1, <2>2 DEF Shutdown, TypeOK, StoreTypeOK, history
  <1>3. CASE CancelContext(p)
    <2>1. pools' \in PoolType
      BY Zenon, <1>3 DEF CancelContext, TypeOK
    <2>2. faults' \in 0..MaxFaults
      BY <1>3, PoolAssumption DEF CancelContext, Disturb, TypeOK
    <2>q. QED BY Zenon, <1>3, <2>1, <2>2 DEF CancelContext, TypeOK, StoreTypeOK, history
  <1>4. CASE Restart(p)
    BY Zenon, <1>0, <1>4 DEF Restart, TypeOK, StoreTypeOK, history
  <1>5. CASE Crash(p)
    <2>1. pools' \in PoolType
      BY Zenon, <1>0, <1>5 DEF Crash, TypeOK
    <2>2. claims' \in [Goroutines -> Claims \cup {Idle}]
      BY Zenon, <1>5 DEF Crash, TypeOK
    <2>3. faults' \in 0..MaxFaults
      BY <1>5, PoolAssumption DEF Crash, Disturb, TypeOK
    <2>q. QED BY Zenon, <1>5, <2>1, <2>2, <2>3 DEF Crash, TypeOK, StoreTypeOK, history
  <1>6. CASE \E q \in Queues : Rescue(p, q)
    <2>1. PICK q \in Queues : Rescue(p, q)
      BY Zenon, <1>6
    <2>2. StoreTypeOK'
      BY Zenon, <2>1, JobRescueStuckType, PoolAssumption DEF Rescue, TypeOK
    <2>3. rescues' \in [JobIDs -> Nat]
      BY <2>1 DEF Rescue, TypeOK
    <2>q. QED BY Zenon, <2>1, <2>2, <2>3 DEF Rescue, TypeOK
  <1>q. QED BY Zenon, <1>1, <1>2, <1>3, <1>4, <1>5, <1>6 DEF PoolStep

\* The steps of an operator keep the types: cancel, delete, reschedule, pause
\* and resume.
LEMMA OperatorStepType ==
  ASSUME TypeOK, OperatorStep
  PROVE  TypeOK'
  <1>1. ASSUME NEW j \in JobIDs, Cancel(j) PROVE TypeOK'
    <2>1. StoreTypeOK' BY Zenon, <1>1, JobCancelType DEF Cancel, TypeOK
    <2>2. faults' \in 0..MaxFaults
      BY <1>1, PoolAssumption DEF Cancel, Disturb, TypeOK
    <2>q. QED BY Zenon, <1>1, <2>1, <2>2 DEF Cancel, TypeOK, history
  <1>2. ASSUME NEW j \in JobIDs, Delete(j) PROVE TypeOK'
    <2>1. StoreTypeOK' BY Zenon, <1>2 DEF Delete, JobDelete, TypeOK, StoreTypeOK
    <2>2. faults' \in 0..MaxFaults
      BY <1>2, PoolAssumption DEF Delete, Disturb, TypeOK
    <2>q. QED BY Zenon, <1>2, <2>1, <2>2 DEF Delete, TypeOK, history
  <1>3. ASSUME NEW j \in JobIDs, Reschedule(j) PROVE TypeOK'
    <2>1. StoreTypeOK'
      BY Zenon, <1>3, JobRescheduleType, PoolAssumption DEF Reschedule, TypeOK
    <2>2. faults' \in 0..MaxFaults
      BY <1>3, PoolAssumption DEF Reschedule, Disturb, TypeOK
    <2>q. QED BY Zenon, <1>3, <2>1, <2>2 DEF Reschedule, TypeOK
  <1>4. ASSUME NEW q \in Queues, Pause(q) PROVE TypeOK'
    <2>1. StoreTypeOK' BY Zenon, <1>4 DEF Pause, QueuePause, TypeOK, StoreTypeOK
    <2>2. faults' \in 0..MaxFaults
      BY <1>4, PoolAssumption DEF Pause, Disturb, TypeOK
    <2>q. QED BY Zenon, <1>4, <2>1, <2>2 DEF Pause, TypeOK, history
  <1>5. ASSUME NEW q \in Queues, Resume(q) PROVE TypeOK'
    BY Zenon, <1>5 DEF Resume, QueueResume, TypeOK, StoreTypeOK, history
  <1>q. QED BY Zenon, <1>1, <1>2, <1>3, <1>4, <1>5 DEF OperatorStep

\* A tick keeps the types of the rows and of the heartbeat timers.
LEMMA TickType ==
  ASSUME TypeOK, Tick
  PROVE  TypeOK'
  <1>1. StoreTypeOK' BY Zenon, ElapseType DEF Tick, TypeOK
  <1>2. ASSUME NEW g \in Goroutines, claims[g].phase # "idle"
        PROVE  [claims[g] EXCEPT !.beat = @ - 1] \in Claims
    BY <1>2, ClaimType DEF Claims
  <1>3. claims' \in [Goroutines -> Claims \cup {Idle}]
    BY Zenon, <1>2 DEF Tick, TypeOK, Beating
  <1>q. QED BY Zenon, <1>1, <1>3 DEF Tick, TypeOK, history

\* Every step keeps every variable typed.
LEMMA NextType == TypeOK /\ [Next]_vars => TypeOK'
  <1> SUFFICES ASSUME TypeOK, [Next]_vars PROVE TypeOK'
    BY Zenon
  <1>1. CASE Enqueue
    <2>1. StoreTypeOK' BY Zenon, <1>1, JobInsertType DEF Enqueue, TypeOK
    <2>q. QED BY Zenon, <1>1, <2>1 DEF Enqueue, TypeOK, history
  <1>2. CASE UNCHANGED vars
    BY Zenon, <1>2 DEF vars, TypeOK, StoreTypeOK
  <1>q. QED
    BY Zenon, <1>1, <1>2, GoroutineStepType, PoolStepType, OperatorStepType, TickType DEF Next

\* Every reachable state is well typed (TypeOK), for every number of jobs,
\* queues, pools and slots and every configuration of the pools.
THEOREM TypeCorrect == Spec => []TypeOK
  BY InitType, NextType, PTL DEF Spec

-----------------------------------------------------------------------------
(* Fencing.                                                                *)

\* No row appears, changes its attempt or its retry limit.
KeepsRows ==
  \A j \in JobIDs : jobs'[j].state # "none" =>
    /\ Exists(j)
    /\ jobs'[j].attempt = jobs[j].attempt
    /\ jobs'[j].maxRetry = jobs[j].maxRetry

\* No goroutine takes a claim or changes the one it has.
KeepsClaims ==
  \A g \in Goroutines :
    /\ claims'[g].phase # "idle" =>
         /\ claims[g].phase # "idle"
         /\ claims'[g].job = claims[g].job
         /\ claims'[g].worker = claims[g].worker
         /\ claims'[g].attempt = claims[g].attempt
         /\ claims'[g].maxRetry = claims[g].maxRetry
    /\ claims'[g].phase \in {"waiting", "handling"} => Holding(g)

\* A step that gives no row a new attempt and no goroutine a new claim keeps
\* the tokens distinct.
LEMMA KeepingStep ==
  ASSUME TypeOK, DistinctTokens, KeepsRows, KeepsClaims, seq' = seq
  PROVE  DistinctTokens'
  <1>0. \A g \in Goroutines : claims[g].phase # "idle" => claims[g].job \in JobIDs
    BY Zenon, ClaimType DEF Claims
  <1>1. \A j \in JobIDs : Exists(j)' => j <= seq'
    BY Zenon DEF Exists, KeepsRows, DistinctTokens
  <1>2. \A g \in Goroutines : claims'[g].phase # "idle" => claims'[g].job <= seq'
    BY Zenon DEF KeepsClaims, DistinctTokens
  <1>3. ASSUME NEW g \in Goroutines, Holding(g)', Exists(claims[g].job)'
        PROVE  /\ Holding(g) /\ claims'[g].job = claims[g].job
               /\ claims[g].job \in JobIDs /\ Exists(claims[g].job)
               /\ claims'[g].attempt <= jobs'[claims[g].job].attempt
               /\ claims'[g].maxRetry = effectiveMaxRetry(jobs'[claims[g].job])
               /\ claims'[g].attempt = claims[g].attempt
    <2>1. Holding(g) /\ claims'[g].job = claims[g].job
      BY Zenon, <1>3 DEF KeepsClaims, Holding
    <2>2. claims[g].job \in JobIDs
      BY Zenon, <1>0, <2>1 DEF Holding
    <2>3. jobs'[claims[g].job].state # "none"
      BY Zenon, <1>3, <2>1 DEF Exists
    <2>q. QED BY <2>1, <2>2, <2>3, <1>3
            DEF KeepsClaims, KeepsRows, DistinctTokens, effectiveMaxRetry, Holding
  <1>4. \A g \in Goroutines :
          (LET c == claims[g] IN
           Holding(g) /\ Exists(c.job) =>
             /\ c.attempt <= jobs[c.job].attempt
             /\ c.maxRetry = effectiveMaxRetry(jobs[c.job]))'
    BY Zenon, <1>3 DEF effectiveMaxRetry
  <1>5. \A g, h \in Goroutines :
          (Holding(g) /\ Holding(h) /\ g # h /\ claims[g].job = claims[h].job
            /\ Exists(claims[g].job) => claims[g].attempt # claims[h].attempt)'
    BY <1>3 DEF DistinctTokens
  <1>q. QED BY Zenon, <1>1, <1>2, <1>4, <1>5 DEF DistinctTokens

\* An insert uses an id no claim has seen, so tokens stay distinct
\* (JobInsertMany).
LEMMA EnqueueTokens ==
  ASSUME TypeOK, DistinctTokens, Enqueue
  PROVE  DistinctTokens'
  <1>1. PICK c \in InsertChoices :
          JobInsert(c.queue, c.priority, c.runAt, c.maxRetry, c.uniqueKey)
    BY Zenon DEF Enqueue
  <1>2. /\ seq \in Int /\ seq' = seq + 1 /\ claims' = claims
        /\ \A j \in JobIDs : j <= seq => jobs'[j] = jobs[j]
        /\ \A j \in JobIDs : Exists(j)' => Exists(j) \/ j = seq + 1
    BY <1>1 DEF JobInsert, Enqueue, TypeOK, StoreTypeOK, JobIDs, Exists
  <1>3. \A g \in Goroutines : claims[g].phase # "idle" =>
          claims[g].job \in JobIDs /\ claims[g].job <= seq
    BY Zenon, ClaimType DEF Claims, DistinctTokens
  <1>4. \A j \in JobIDs : Exists(j)' => j <= seq'
    BY <1>2 DEF DistinctTokens, JobIDs
  <1>5. \A g \in Goroutines : Holding(g)' => Holding(g) /\ claims[g].phase # "idle"
    BY Zenon, <1>2 DEF Holding
  <1>6. \A g \in Goroutines : claims'[g].phase # "idle" => claims'[g].job <= seq'
    BY <1>2, <1>3 DEF JobIDs
  <1>7. \A g \in Goroutines : Holding(g)' =>
          jobs'[claims'[g].job] = jobs[claims[g].job] /\ claims'[g] = claims[g]
    BY Zenon, <1>2, <1>3, <1>5
  <1>q. QED BY <1>2, <1>4, <1>5, <1>6, <1>7
          DEF DistinctTokens, Exists, effectiveMaxRetry

\* A fetch raises the attempt above every token handed out for the job
\* (JobFetchBatch), so the new token is distinct.
LEMMA FetchTokens ==
  ASSUME TypeOK, DistinctTokens, NEW p \in Pools, Fetch(p)
  PROVE  DistinctTokens'
  <1>1. PICK s \in Slots, q \in Queues, j \in JobIDs :
          /\ claims[<<p, s>>] = Idle
          /\ JobFetch(q, j, WorkerIDOf[p], StuckJobTimeout[p])
          /\ claims' = [claims EXCEPT ![<<p, s>>] = NewClaim(p, j)]
    BY Zenon DEF Fetch
  <1> DEFINE f == <<p, s>>
  <1>2. f \in Goroutines
    BY Zenon DEF Goroutines
  <1>3. jobs[j] \in Rows /\ Exists(j)
    BY Zenon, <1>1, RowType DEF JobFetch, Due, Exists, TypeOK
  <1>4. /\ jobs'[j].state # "none"
        /\ jobs'[j].attempt = jobs[j].attempt + 1
        /\ jobs'[j].maxRetry = jobs[j].maxRetry
    BY Zenon, <1>1, <1>3 DEF JobFetch, Claimed, Rows
  <1>5. ASSUME NEW i \in JobIDs, i # j
        PROVE  /\ Exists(i)' <=> Exists(i)
               /\ Exists(i) => /\ jobs'[i].attempt = jobs[i].attempt
                              /\ jobs'[i].maxRetry = jobs[i].maxRetry
    <2>1. CASE Due(i, q)
      <3>1. jobs[i] \in Rows /\ Exists(i)
        BY Zenon, <2>1, RowType DEF Due, Exists, TypeOK
      <3>2. jobs'[i] = [jobs[i] EXCEPT !.state = "available"]
        BY Zenon, <1>1, <1>5, <2>1 DEF JobFetch
      <3>q. QED BY Zenon, <3>1, <3>2 DEF Rows, Exists
    <2>2. CASE ~Due(i, q)
      BY Zenon, <1>1, <1>5, <2>2 DEF JobFetch, Exists
    <2>q. QED BY Zenon, <2>1, <2>2
  <1>6. /\ claims'[f].phase = "waiting" /\ claims'[f].job = j
        /\ claims'[f].attempt = jobs[j].attempt + 1
        /\ claims'[f].maxRetry = effectiveMaxRetry(jobs[j])
    BY Zenon, <1>1, <1>2 DEF NewClaim, TypeOK
  <1>7. \A g \in Goroutines : g # f => claims'[g] = claims[g]
    BY Zenon, <1>1 DEF TypeOK
  <1>8. seq' = seq
    BY Zenon, <1>1 DEF JobFetch
  <1>9. ASSUME NEW g \in Goroutines, g # f, Holding(g)
        PROVE  /\ claims[g].job \in JobIDs /\ claims[g].attempt \in Int
               /\ Exists(claims[g].job) =>
                    /\ claims[g].attempt <= jobs[claims[g].job].attempt
                    /\ jobs[claims[g].job].attempt \in Int
    BY <1>9, ClaimType, RowType DEF Holding, Claims, DistinctTokens, Rows, TypeOK
  <1>10. \A i \in JobIDs : Exists(i)' => i <= seq'
    BY Zenon, <1>3, <1>5, <1>8 DEF DistinctTokens
  <1>11. \A g \in Goroutines : claims'[g].phase # "idle" => claims'[g].job <= seq'
    BY Zenon, <1>3, <1>6, <1>7, <1>8 DEF DistinctTokens
  <1>12. ASSUME NEW g \in Goroutines, Holding(g)', Exists(claims[g].job)'
         PROVE  /\ claims'[g].attempt <= jobs'[claims'[g].job].attempt
                /\ claims'[g].maxRetry = effectiveMaxRetry(jobs'[claims'[g].job])
    <2>1. CASE g = f
      BY <1>3, <1>4, <1>6, <2>1 DEF Rows, effectiveMaxRetry
    <2>2. CASE g # f
      <3>1. Holding(g) /\ claims'[g] = claims[g]
        BY Zenon, <1>7, <1>12, <2>2 DEF Holding
      <3>2. Exists(claims[g].job)
        BY Zenon, <1>3, <1>5, <1>9, <1>12, <2>2, <3>1 DEF Exists
      <3>q. QED BY <1>3, <1>4, <1>5, <1>9, <2>2, <3>1, <3>2
              DEF DistinctTokens, effectiveMaxRetry
    <2>q. QED BY Zenon, <2>1, <2>2
  <1>13. ASSUME NEW g \in Goroutines, NEW h \in Goroutines, g # h,
                Holding(g)', Holding(h)', claims'[g].job = claims'[h].job,
                Exists(claims[g].job)'
         PROVE  claims'[g].attempt # claims'[h].attempt
    <2>1. ASSUME NEW k \in Goroutines, k # f, Holding(k)', claims'[k].job = j
          PROVE  claims'[k].attempt # jobs[j].attempt + 1
      <3>1. Holding(k) /\ claims'[k] = claims[k]
        BY Zenon, <1>7, <2>1 DEF Holding
      <3>q. QED BY <1>3, <1>9, <2>1, <3>1
    <2>2. CASE g = f
      BY Zenon, <1>6, <1>13, <2>1, <2>2
    <2>3. CASE h = f
      BY Zenon, <1>6, <1>13, <2>1, <2>3
    <2>4. CASE g # f /\ h # f
      <3>1. /\ Holding(g) /\ claims'[g] = claims[g]
            /\ Holding(h) /\ claims'[h] = claims[h]
        BY Zenon, <1>7, <1>13, <2>4 DEF Holding
      <3>2. Exists(claims[g].job)
        BY Zenon, <1>3, <1>5, <1>9, <1>13, <2>4, <3>1 DEF Exists
      <3>q. QED BY Zenon, <1>13, <3>1, <3>2 DEF DistinctTokens
    <2>q. QED BY Zenon, <2>2, <2>3, <2>4
  <1>q. QED BY Zenon, <1>10, <1>11, <1>12, <1>13 DEF DistinctTokens, effectiveMaxRetry

\* Moving a held claim on to its handler or to its end changes no token.
LEMMA PhaseKeepsClaims ==
  ASSUME TypeOK, NEW g \in Goroutines, Holding(g),
         NEW phase \in {"handling", "closing"},
         claims' = [claims EXCEPT ![g].phase = phase]
  PROVE  KeepsClaims
  <1>1. claims[g] \in Claims
    BY Zenon, ClaimType DEF Holding
  <1>2. /\ claims'[g] = [claims[g] EXCEPT !.phase = phase]
        /\ \A h \in Goroutines : h # g => claims'[h] = claims[h]
    BY Zenon DEF TypeOK
  <1>q. QED BY <1>1, <1>2 DEF KeepsClaims, Holding, Claims

\* Settling a claim keeps the attempt of the row, and the tokens distinct
\* (JobSetStateIfRunning).
LEMMA SettledTokens ==
  ASSUME TypeOK, DistinctTokens, NEW g \in Goroutines, Holding(g),
         NEW state \in {"completed", "discarded", "retryable"},
         NEW failed, NEW retryAt,
         SetState(g, Settled(jobs[claims[g].job], state, failed, retryAt))
  PROVE  DistinctTokens'
  <1> DEFINE j == claims[g].job
  <1>1. j \in JobIDs
    BY Zenon, ClaimType DEF Holding, Claims
  <1>2. KeepsClaims
    BY Zenon, PhaseKeepsClaims DEF SetState
  <1>3. seq' = seq
    BY Zenon DEF SetState, JobSetStateIfRunning
  <1>4. KeepsRows
    <2>1. CASE MatchesClaim(jobs[j], claims[g])
      <3>1. jobs[j] \in Rows /\ Exists(j)
        BY Zenon, <1>1, <2>1, RowType DEF MatchesClaim, Exists, TypeOK
      <3>2. /\ jobs'[j].attempt = jobs[j].attempt
            /\ jobs'[j].maxRetry = jobs[j].maxRetry
        BY Zenon, <1>1, <2>1, <3>1
        DEF SetState, JobSetStateIfRunning, Settled, Rows, TypeOK, StoreTypeOK
      <3>3. \A i \in JobIDs : i # j => jobs'[i] = jobs[i]
        BY Zenon, <2>1 DEF SetState, JobSetStateIfRunning, TypeOK, StoreTypeOK
      <3>q. QED BY Zenon, <1>1, <3>1, <3>2, <3>3 DEF KeepsRows, Exists
    <2>2. CASE ~MatchesClaim(jobs[j], claims[g])
      BY Zenon, <2>2 DEF SetState, JobSetStateIfRunning, KeepsRows, Exists
    <2>q. QED BY Zenon, <2>1, <2>2
  <1>q. QED BY Zenon, <1>2, <1>3, <1>4, KeepingStep

\* A yield lowers the row's attempt, and only when it is the yielder's own:
\* every other claim on the job carries a smaller one.
LEMMA YieldTokens ==
  ASSUME TypeOK, DistinctTokens, NEW g \in Goroutines, Holding(g), Yield(g)
  PROVE  DistinctTokens'
  <1> DEFINE j == claims[g].job
  <1>1. claims[g] \in Claims /\ j \in JobIDs
    BY Zenon, ClaimType DEF Holding, Claims
  <1>2. /\ KeepsClaims /\ claims'[g].phase = "closing"
        /\ \A h \in Goroutines : h # g => claims'[h] = claims[h]
    BY Zenon, <1>1, PhaseKeepsClaims DEF Yield, SetState, TypeOK, Claims
  <1>3. seq' = seq
    BY Zenon DEF Yield, SetState, JobSetStateIfRunning
  <1>4. CASE ~MatchesClaim(jobs[j], claims[g])
    <2>1. KeepsRows
      BY Zenon, <1>4 DEF Yield, SetState, JobSetStateIfRunning, KeepsRows, Exists
    <2>q. QED BY Zenon, <1>2, <1>3, <2>1, KeepingStep
  <1>5. CASE MatchesClaim(jobs[j], claims[g])
    <2>1. jobs[j] \in Rows /\ Exists(j) /\ jobs[j].attempt = claims[g].attempt
      BY Zenon, <1>1, <1>5, RowType DEF MatchesClaim, Exists, TypeOK
    <2>2. /\ jobs'[j].attempt = jobs[j].attempt - 1
          /\ jobs'[j].maxRetry = jobs[j].maxRetry
      BY Zenon, <1>1, <1>5, <2>1
      DEF Yield, SetState, JobSetStateIfRunning, Yielded, Rows, TypeOK, StoreTypeOK
    <2>3. \A i \in JobIDs : i # j => jobs'[i] = jobs[i]
      BY Zenon, <1>5 DEF Yield, SetState, JobSetStateIfRunning, TypeOK, StoreTypeOK
    <2>4. \A i \in JobIDs : Exists(i)' => Exists(i)
      BY Zenon, <2>1, <2>3 DEF Exists
    <2>5. ASSUME NEW h \in Goroutines, Holding(h)', Exists(claims[h].job)'
          PROVE  /\ h # g /\ Holding(h) /\ claims'[h] = claims[h]
                 /\ claims[h] \in Claims /\ Exists(claims[h].job)
                 /\ claims[h].attempt <= jobs'[claims[h].job].attempt
                 /\ claims[h].maxRetry = effectiveMaxRetry(jobs'[claims[h].job])
      <3>1. h # g /\ Holding(h) /\ claims'[h] = claims[h]
        BY Zenon, <1>2, <2>5 DEF Holding
      <3>2. claims[h] \in Claims /\ claims[h].job \in JobIDs
        BY Zenon, <3>1, ClaimType DEF Holding, Claims
      <3>3. Exists(claims[h].job)
        BY Zenon, <2>4, <2>5, <3>1, <3>2 DEF Exists
      <3>4. /\ claims[h].attempt <= jobs[claims[h].job].attempt
            /\ claims[h].maxRetry = effectiveMaxRetry(jobs[claims[h].job])
        BY Zenon, <3>1, <3>3 DEF DistinctTokens
      <3>5. CASE claims[h].job = j
        <4>1. claims[h].attempt # claims[g].attempt
          BY Zenon, <2>1, <3>1, <3>5 DEF DistinctTokens
        <4>2. claims[h].attempt \in Int /\ jobs[j].attempt \in Int
          BY <2>1, <3>2 DEF Claims, Rows
        <4>q. QED BY <2>1, <2>2, <3>1, <3>2, <3>3, <3>4, <3>5, <4>1, <4>2
                DEF effectiveMaxRetry
      <3>6. CASE claims[h].job # j
        BY Zenon, <2>3, <3>1, <3>2, <3>3, <3>4, <3>6 DEF effectiveMaxRetry
      <3>q. QED BY Zenon, <3>5, <3>6
    <2>6. \A i \in JobIDs : Exists(i)' => i <= seq'
      BY Zenon, <1>3, <2>4 DEF DistinctTokens
    <2>7. \A h \in Goroutines : claims'[h].phase # "idle" => claims'[h].job <= seq'
      BY Zenon, <1>2, <1>3 DEF KeepsClaims, DistinctTokens
    <2>8. \A h, k \in Goroutines :
            (Holding(h) /\ Holding(k) /\ h # k /\ claims[h].job = claims[k].job
              /\ Exists(claims[h].job) => claims[h].attempt # claims[k].attempt)'
      BY <2>5 DEF DistinctTokens
    <2>q. QED BY Zenon, <2>5, <2>6, <2>7, <2>8 DEF DistinctTokens, effectiveMaxRetry
  <1>q. QED BY Zenon, <1>4, <1>5

\* Marking started and heartbeating change no attempt and no retry limit
\* (JobMarkStarted, JobHeartbeat).
LEMMA OwnUpdateKeepsRows ==
  ASSUME TypeOK, NEW g \in Goroutines, claims[g].phase # "idle",
         JobMarkStarted(claims[g]) \/ \E d \in Int : JobHeartbeat(claims[g], d)
  PROVE  KeepsRows /\ seq' = seq
  <1> DEFINE j == claims[g].job
  <1>1. j \in JobIDs
    BY Zenon, ClaimType DEF Claims
  <1>2. seq' = seq
    BY Zenon DEF JobMarkStarted, JobHeartbeat
  <1>3. CASE ~MatchesClaim(jobs[j], claims[g])
    BY Zenon, <1>2, <1>3 DEF JobMarkStarted, JobHeartbeat, KeepsRows, Exists
  <1>4. CASE MatchesClaim(jobs[j], claims[g])
    <2>1. jobs[j] \in Rows /\ Exists(j)
      BY Zenon, <1>1, <1>4, RowType DEF MatchesClaim, Exists, TypeOK
    <2>2. \A i \in JobIDs : i # j => jobs'[i] = jobs[i]
      BY Zenon, <1>4 DEF JobMarkStarted, JobHeartbeat, TypeOK, StoreTypeOK
    <2>3. /\ jobs'[j].attempt = jobs[j].attempt
          /\ jobs'[j].maxRetry = jobs[j].maxRetry
      <3>1. CASE JobMarkStarted(claims[g])
        <4>1. jobs'[j] = [jobs[j] EXCEPT !.started = TRUE]
          BY Zenon, <1>1, <1>4, <3>1 DEF JobMarkStarted, TypeOK, StoreTypeOK
        <4>q. QED BY Zenon, <2>1, <4>1 DEF Rows
      <3>2. ASSUME NEW d \in Int, JobHeartbeat(claims[g], d)
            PROVE  /\ jobs'[j].attempt = jobs[j].attempt
                   /\ jobs'[j].maxRetry = jobs[j].maxRetry
        <4>1. jobs'[j] = [jobs[j] EXCEPT !.lease = d]
          BY Zenon, <1>1, <1>4, <3>2 DEF JobHeartbeat, TypeOK, StoreTypeOK
        <4>q. QED BY Zenon, <2>1, <4>1 DEF Rows
      <3>q. QED BY Zenon, <3>1, <3>2
    <2>q. QED BY Zenon, <1>2, <2>1, <2>2, <2>3 DEF KeepsRows, Exists
  <1>q. QED BY Zenon, <1>3, <1>4

\* The steps of a dispatched goroutine keep the tokens distinct (processRow,
\* startHeartbeat).
LEMMA GoroutineStepTokens ==
  ASSUME TypeOK, DistinctTokens, NEW g \in Goroutines, GoroutineStep(g)
  PROVE  DistinctTokens'
  <1>t. claims \in [Goroutines -> Claims \cup {Idle}]
    BY Zenon DEF TypeOK
  <1>r. jobs' = jobs => KeepsRows
    BY Zenon DEF KeepsRows, Exists
  <1>1. CASE Start(g)
    <2>1. Holding(g) /\ claims[g].phase # "idle"
      BY Zenon, <1>1 DEF Start, Holding
    <2>2. KeepsClaims
      BY Zenon, <1>1, <2>1, PhaseKeepsClaims DEF Start
    <2>q. QED BY Zenon, <1>1, <2>1, <2>2, OwnUpdateKeepsRows, KeepingStep DEF Start
  <1>2. CASE YieldWaiting(g) \/ YieldHandled(g)
    BY Zenon, <1>2, YieldTokens DEF YieldWaiting, YieldHandled, Holding
  <1>3. CASE Complete(g)
    BY Zenon, <1>3, SettledTokens DEF Complete, Holding
  <1>4. CASE Fail(g)
    <2>1. PICK noRetry \in BOOLEAN, delay \in RunDelays :
            SetState(g, Settled(jobs[claims[g].job],
                                FailureState(claims[g], noRetry), TRUE, delay))
      BY Zenon, <1>4 DEF Fail
    <2>2. FailureState(claims[g], noRetry) \in {"completed", "discarded", "retryable"}
      BY Zenon DEF FailureState
    <2>3. Holding(g)
      BY Zenon, <1>4 DEF Fail, Holding
    <2>q. QED BY Zenon, <2>1, <2>2, <2>3, SettledTokens
  <1>5. CASE Close(g)
    <2>1. KeepsClaims
      BY Zenon, <1>5, <1>t DEF Close, KeepsClaims, Idle, Holding
    <2>q. QED BY Zenon, <1>5, <1>r, <2>1, KeepingStep DEF Close
  <1>6. CASE Heartbeat(g)
    <2>1. claims[g].phase # "idle" /\ claims[g] \in Claims
      BY Zenon, <1>6, ClaimType DEF Heartbeat, BeatDue, Beating
    <2>2. /\ claims'[g].phase = claims[g].phase /\ claims'[g].job = claims[g].job
          /\ claims'[g].worker = claims[g].worker
          /\ claims'[g].attempt = claims[g].attempt
          /\ claims'[g].maxRetry = claims[g].maxRetry
          /\ \A h \in Goroutines : h # g => claims'[h] = claims[h]
      BY Zenon, <1>6, <1>t, <2>1 DEF Heartbeat, Claims
    <2>3. KeepsClaims
      BY Zenon, <2>2 DEF KeepsClaims, Holding
    <2>4. StuckJobTimeout[g[1]] \in Int
      BY Zenon, GoroutineParts, PoolAssumption
    <2>q. QED BY Zenon, <1>6, <2>1, <2>3, <2>4, OwnUpdateKeepsRows, KeepingStep DEF Heartbeat
  <1>7. CASE HeartbeatError(g) \/ Stall(g)
    <2>1. claims[g].phase # "idle" /\ claims[g] \in Claims
      BY Zenon, <1>7, ClaimType DEF HeartbeatError, BeatDue, Beating, Stall, Healthy
    <2>2. /\ claims'[g].phase = claims[g].phase /\ claims'[g].job = claims[g].job
          /\ claims'[g].worker = claims[g].worker
          /\ claims'[g].attempt = claims[g].attempt
          /\ claims'[g].maxRetry = claims[g].maxRetry
          /\ \A h \in Goroutines : h # g => claims'[h] = claims[h]
      BY <1>7, <1>t, <2>1 DEF HeartbeatError, Stall, Claims
    <2>3. KeepsClaims
      BY Zenon, <2>2 DEF KeepsClaims, Holding
    <2>q. QED BY Zenon, <1>7, <1>r, <2>3, KeepingStep DEF HeartbeatError, Stall
  <1>8. CASE SetStateError(g)
    <2>1. KeepsClaims
      BY Zenon, <1>8, PhaseKeepsClaims DEF SetStateError
    <2>q. QED BY Zenon, <1>8, <1>r, <2>1, KeepingStep DEF SetStateError
  <1>q. QED BY Zenon, <1>1, <1>2, <1>3, <1>4, <1>5, <1>6, <1>7, <1>8 DEF GoroutineStep

\* The steps of a pool keep the tokens distinct; a rescue leaves the attempt
\* of the row alone (JobRescueStuck).
LEMMA PoolStepTokens ==
  ASSUME TypeOK, DistinctTokens, NEW p \in Pools, PoolStep(p)
  PROVE  DistinctTokens'
  <1>r. jobs' = jobs => KeepsRows
    BY Zenon DEF KeepsRows, Exists
  <1>c. claims' = claims => KeepsClaims
    BY Zenon DEF KeepsClaims, Holding
  <1>1. CASE Fetch(p)
    BY Zenon, <1>1, FetchTokens
  <1>2. CASE Shutdown(p) \/ CancelContext(p) \/ Restart(p)
    BY Zenon, <1>2, <1>r, <1>c, KeepingStep DEF Shutdown, CancelContext, Restart
  <1>3. CASE Crash(p)
    <2>1. KeepsClaims
      BY Zenon, <1>3 DEF Crash, KeepsClaims, Idle, Holding
    <2>q. QED BY Zenon, <1>3, <1>r, <2>1, KeepingStep DEF Crash
  <1>4. ASSUME NEW q \in Queues, Rescue(p, q)
        PROVE  DistinctTokens'
    <2>1. ASSUME NEW j \in JobIDs, jobs'[j].state # "none"
          PROVE  /\ Exists(j)
                 /\ jobs'[j].attempt = jobs[j].attempt
                 /\ jobs'[j].maxRetry = jobs[j].maxRetry
      <3>1. CASE Stuck(jobs[j], StuckJobTimeout[p]) /\ jobs[j].queue = q
        <4>1. jobs[j] \in Rows /\ Exists(j)
          BY Zenon, <3>1, RowType DEF Stuck, Exists, TypeOK
        <4>q. QED BY Zenon, <1>4, <3>1, <4>1 DEF Rescue, JobRescueStuck, Rescued, Rows
      <3>2. CASE ~(Stuck(jobs[j], StuckJobTimeout[p]) /\ jobs[j].queue = q)
        BY Zenon, <1>4, <2>1, <3>2 DEF Rescue, JobRescueStuck, Exists
      <3>q. QED BY Zenon, <3>1, <3>2
    <2>q. QED BY Zenon, <1>4, <1>c, <2>1, KeepingStep DEF Rescue, JobRescueStuck, KeepsRows
  <1>q. QED BY Zenon, <1>1, <1>2, <1>3, <1>4 DEF PoolStep

\* The steps of an operator keep the tokens distinct; a reschedule leaves the
\* attempt of the row alone (JobReschedule).
LEMMA OperatorStepTokens ==
  ASSUME TypeOK, DistinctTokens, OperatorStep
  PROVE  DistinctTokens'
  <1>c. claims' = claims => KeepsClaims
    BY Zenon DEF KeepsClaims, Holding
  <1>1. ASSUME NEW j \in JobIDs, Cancel(j) \/ Delete(j) \/ Reschedule(j)
        PROVE  DistinctTokens'
    <2>1. jobs[j] \in Rows /\ Exists(j) /\ claims' = claims /\ seq' = seq
      BY Zenon, <1>1, RowType
      DEF Cancel, JobCancel, Delete, JobDelete, Reschedule, JobReschedule, Exists, TypeOK
    <2>2. \A i \in JobIDs : i # j => jobs'[i] = jobs[i]
      BY Zenon, <1>1 DEF Cancel, JobCancel, Delete, JobDelete, Reschedule, JobReschedule,
                  TypeOK, StoreTypeOK
    <2>3. jobs'[j].state # "none" => /\ jobs'[j].attempt = jobs[j].attempt
                                    /\ jobs'[j].maxRetry = jobs[j].maxRetry
      BY <1>1, <2>1 DEF Cancel, JobCancel, Delete, JobDelete, Reschedule, JobReschedule,
                        TypeOK, StoreTypeOK, Rows, NoRow
    <2>q. QED BY Zenon, <1>c, <2>1, <2>2, <2>3, KeepingStep DEF KeepsRows, Exists
  <1>2. ASSUME NEW q \in Queues, Pause(q) \/ Resume(q)
        PROVE  DistinctTokens'
    BY Zenon, <1>2, <1>c, KeepingStep
    DEF Pause, QueuePause, Resume, QueueResume, KeepsRows, Exists
  <1>q. QED BY Zenon, <1>1, <1>2 DEF OperatorStep

\* A tick keeps the tokens distinct.
LEMMA TickTokens ==
  ASSUME TypeOK, DistinctTokens, Tick
  PROVE  DistinctTokens'
  <1>1. ASSUME NEW j \in JobIDs, jobs'[j].state # "none"
        PROVE  /\ Exists(j)
               /\ jobs'[j].attempt = jobs[j].attempt
               /\ jobs'[j].maxRetry = jobs[j].maxRetry
    <2>1. CASE jobs[j].state = "none"
      BY ZenonT(30), <1>1, <2>1 DEF Tick, Elapse, Aged
    <2>2. CASE jobs[j].state # "none"
      <3>1. jobs[j] \in Rows
        BY Zenon, <2>2, RowType DEF TypeOK, Exists
      <3>q. QED BY Zenon, <2>2, <3>1 DEF Tick, Elapse, Aged, Exists, Rows
    <2>q. QED BY Zenon, <2>1, <2>2
  <1>2. \A g \in Goroutines :
          \/ claims'[g] = claims[g]
          \/ /\ Beating(g)
             /\ claims'[g] = [claims[g] EXCEPT !.beat = @ - 1]
    BY Zenon DEF Tick
  <1>3. \A g \in Goroutines : Beating(g) => claims[g] \in Claims
    BY Zenon, ClaimType DEF Beating
  <1>4. KeepsClaims
    BY ZenonT(30), <1>2, <1>3 DEF KeepsClaims, Claims, Holding
  <1>q. QED BY Zenon, <1>1, <1>4, KeepingStep DEF KeepsRows, Tick, Elapse

\* Every step keeps the tokens distinct.
LEMMA TokensStep ==
  ASSUME TypeOK, DistinctTokens, [Next]_vars
  PROVE  DistinctTokens'
  <1>1. CASE UNCHANGED vars
    BY Zenon, <1>1 DEF vars, DistinctTokens, Exists, Holding, effectiveMaxRetry
  <1>q. QED BY Zenon, <1>1, EnqueueTokens, GoroutineStepTokens, PoolStepTokens,
               OperatorStepTokens, TickTokens DEF Next

\* No token has been handed out at the start.
LEMMA InitTokens ==
  ASSUME Init
  PROVE  DistinctTokens
  BY Zenon DEF Init, StoreInit, DistinctTokens, Exists, NoRow, Idle, Holding

\* Distinct tokens are what makes MatchesClaim a fence: at most one goroutine
\* passes it for a job.
LEMMA TokensFence ==
  ASSUME TypeOK, DistinctTokens
  PROVE  SingleOwner
  BY DEF SingleOwner, DistinctTokens, Owns, MatchesClaim, Exists

\* The inductive invariant behind the fence, for every number of pools, slots
\* and jobs: two live claims on a job carry different attempts, and none is
\* ahead of the row's.  Fetching
\* raises the attempt and only a yield by the owner lowers it
\* (JobFetchBatch, JobSetStateIfRunning).
THEOREM TokensDistinct == Spec => []DistinctTokens
  <1>1. Init => DistinctTokens
    BY Zenon, InitTokens
  <1>2. TypeOK /\ DistinctTokens /\ [Next]_vars => DistinctTokens'
    BY Zenon, TokensStep
  <1>q. QED BY <1>1, <1>2, TypeCorrect, PTL DEF Spec

\* Single ownership holds for every number of pools, slots, queues and jobs
\* and with any sharing of WorkerIDs: at most one goroutine passes the fence
\* of a job (MatchesClaim), so a rescued, rescheduled or restarted claim can
\* never settle a job that another one owns.
THEOREM Fencing == Spec => []SingleOwner
  <1>1. TypeOK /\ DistinctTokens => SingleOwner
    BY Zenon, TokensFence
  <1>q. QED BY <1>1, TypeCorrect, TokensDistinct, PTL

-----------------------------------------------------------------------------
(* The books of a row.                                                     *)

InProgress(row) == IF row.state \in {"running", "completed"} THEN 1 ELSE 0

\* The books of one row that was rescued n times: every attempt is accounted
\* for, and an active job has budget left.
RowBooks(row, n) ==
  /\ row.attempt = row.errors + n + InProgress(row)
  /\ row.errors <= effectiveMaxRetry(row)
  /\ row.state \notin TerminalStates => row.errors < effectiveMaxRetry(row)

Books ==
  /\ \A j \in JobIDs : Exists(j) /\ j \notin replayed => RowBooks(jobs[j], rescues[j])
  /\ \A j \in JobIDs : j > seq => rescues[j] = 0

-----------------------------------------------------------------------------
(* The row operations keep the books.                                      *)

\* The retry limit of a row is positive, and depends on one field.
LEMMA LimitType ==
  ASSUME NEW row \in Rows
  PROVE  effectiveMaxRetry(row) \in Nat /\ effectiveMaxRetry(row) > 0
  BY PoolAssumption DEF effectiveMaxRetry, Rows

\* Rows that agree on the fields of the books have the same books.
LEMMA SameBooks ==
  ASSUME NEW row, NEW new, NEW n, RowBooks(row, n),
         new.attempt = row.attempt, new.errors = row.errors,
         new.maxRetry = row.maxRetry, new.state = row.state
  PROVE  RowBooks(new, n)
  BY Zenon DEF RowBooks, InProgress, effectiveMaxRetry

\* A new row has nothing on its books (JobInsertMany).
LEMMA NewBooks ==
  ASSUME NEW c \in InsertChoices,
         NewRow(c.queue, c.priority, c.runAt, c.maxRetry, c.uniqueKey) \in Rows
  PROVE  RowBooks(NewRow(c.queue, c.priority, c.runAt, c.maxRetry, c.uniqueKey), 0)
  <1> DEFINE r == NewRow(c.queue, c.priority, c.runAt, c.maxRetry, c.uniqueKey)
  <1>1. r.attempt = 0 /\ r.errors = 0 /\ r.state \in {"available", "scheduled"}
    BY Zenon DEF NewRow
  <1>2. InProgress(r) = 0
    BY Zenon, <1>1 DEF InProgress
  <1>3. effectiveMaxRetry(r) \in Nat /\ effectiveMaxRetry(r) > 0
    BY Zenon, LimitType
  <1> HIDE DEF r
  <1>b. RowBooks(r, 0)
    BY <1>1, <1>2, <1>3 DEF RowBooks
  <1>q. QED BY Zenon, <1>b DEF r

\* A claim charges the attempt in progress (JobFetchBatch).
LEMMA ClaimedBooks ==
  ASSUME NEW row \in Rows, NEW n \in Nat, RowBooks(row, n),
         row.state \in {"available", "scheduled"}, NEW w, NEW d
  PROVE  RowBooks(Claimed(row, w, d), n)
  <1> DEFINE r == Claimed(row, w, d)
  <1>1. /\ r.attempt = row.attempt + 1 /\ r.errors = row.errors
        /\ r.maxRetry = row.maxRetry /\ r.state = "running"
    BY Zenon DEF Claimed, Rows
  <1>2. effectiveMaxRetry(r) = effectiveMaxRetry(row)
    BY Zenon, <1>1 DEF effectiveMaxRetry
  <1>3. InProgress(r) = 1 /\ InProgress(row) = 0
    BY Zenon, <1>1 DEF InProgress
  <1>4. row.attempt = row.errors + n /\ row.errors < effectiveMaxRetry(row)
        /\ row.errors \in Nat
    BY <1>3 DEF RowBooks, TerminalStates, Rows
  <1>5. r.attempt = r.errors + n + InProgress(r)
    BY Zenon, <1>1, <1>3, <1>4
  <1>6. r.errors < effectiveMaxRetry(r) /\ r.errors <= effectiveMaxRetry(r)
    BY <1>1, <1>2, <1>4, LimitType
  <1> HIDE DEF r
  <1>b. RowBooks(r, n)
    BY Zenon, <1>5, <1>6 DEF RowBooks
  <1>q. QED BY Zenon, <1>b DEF r

\* Promotion to available keeps the books (JobFetchBatch).
LEMMA PromotedBooks ==
  ASSUME NEW row \in Rows, NEW n, RowBooks(row, n),
         row.state \in {"available", "scheduled"}
  PROVE  RowBooks([row EXCEPT !.state = "available"], n)
  <1> DEFINE r == [row EXCEPT !.state = "available"]
  <1>1. /\ r.attempt = row.attempt /\ r.errors = row.errors
        /\ r.maxRetry = row.maxRetry /\ r.state = "available"
    BY Zenon DEF Rows
  <1> HIDE DEF r
  <1>b. RowBooks(r, n)
    BY Zenon, <1>1 DEF RowBooks, InProgress, effectiveMaxRetry, TerminalStates
  <1>q. QED BY Zenon, <1>b DEF r

\* A yield gives back the attempt in progress (JobSetStateIfRunning).
LEMMA YieldedBooks ==
  ASSUME NEW row \in Rows, NEW n \in Nat, RowBooks(row, n), row.state = "running"
  PROVE  RowBooks(Yielded(row), n)
  <1> DEFINE r == Yielded(row)
  <1>1. /\ r.attempt = row.attempt - 1 /\ r.errors = row.errors
        /\ r.maxRetry = row.maxRetry /\ r.state = "available"
    BY Zenon DEF Yielded, Rows
  <1>2. effectiveMaxRetry(r) = effectiveMaxRetry(row)
    BY Zenon, <1>1 DEF effectiveMaxRetry
  <1>3. InProgress(r) = 0 /\ InProgress(row) = 1
    BY Zenon, <1>1 DEF InProgress
  <1>4. /\ row.attempt = row.errors + n + 1 /\ row.errors < effectiveMaxRetry(row)
        /\ row.errors \in Nat
    BY Zenon, <1>3 DEF RowBooks, TerminalStates, Rows
  <1>5. r.attempt = r.errors + n + InProgress(r)
    BY <1>1, <1>3, <1>4
  <1>6. r.errors < effectiveMaxRetry(r) /\ r.errors <= effectiveMaxRetry(r)
    BY <1>1, <1>2, <1>4, LimitType
  <1> HIDE DEF r
  <1>b. RowBooks(r, n)
    BY Zenon, <1>5, <1>6 DEF RowBooks
  <1>q. QED BY Zenon, <1>b DEF r

\* A rescue charges the attempt it takes away (JobRescueStuck).
LEMMA RescuedBooks ==
  ASSUME NEW row \in Rows, NEW n \in Nat, RowBooks(row, n), row.state = "running"
  PROVE  RowBooks(Rescued(row), n + 1)
  <1> DEFINE r == Rescued(row)
  <1>1. /\ r.attempt = row.attempt /\ r.errors = row.errors
        /\ r.maxRetry = row.maxRetry /\ r.state = "available"
    BY Zenon DEF Rescued, Rows
  <1>2. effectiveMaxRetry(r) = effectiveMaxRetry(row)
    BY Zenon, <1>1 DEF effectiveMaxRetry
  <1>3. InProgress(r) = 0 /\ InProgress(row) = 1
    BY Zenon, <1>1 DEF InProgress
  <1>4. /\ row.attempt = row.errors + n + 1 /\ row.errors < effectiveMaxRetry(row)
        /\ row.errors \in Nat
    BY Zenon, <1>3 DEF RowBooks, TerminalStates, Rows
  <1>5. r.attempt = r.errors + (n + 1) + InProgress(r)
    BY <1>1, <1>3, <1>4
  <1>6. r.errors < effectiveMaxRetry(r) /\ r.errors <= effectiveMaxRetry(r)
    BY <1>1, <1>2, <1>4, LimitType
  <1> HIDE DEF r
  <1>b. RowBooks(r, n + 1)
    BY Zenon, <1>5, <1>6 DEF RowBooks
  <1>q. QED BY Zenon, <1>b DEF r

\* A completion keeps its attempt (JobSetStateIfRunning).
LEMMA CompletedBooks ==
  ASSUME NEW row \in Rows, NEW n, RowBooks(row, n), row.state = "running"
  PROVE  RowBooks(Settled(row, "completed", FALSE, 0), n)
  <1> DEFINE r == Settled(row, "completed", FALSE, 0)
  <1>1. /\ r.attempt = row.attempt /\ r.errors = row.errors
        /\ r.maxRetry = row.maxRetry /\ r.state = "completed"
    BY Zenon DEF Settled, Rows
  <1> HIDE DEF r
  <1>b. RowBooks(r, n)
    BY Zenon, <1>1 DEF RowBooks, InProgress, effectiveMaxRetry, TerminalStates
  <1>q. QED BY Zenon, <1>b DEF r

\* A failure turns the attempt in progress into an error; it is retried only
\* below the limit the claim was made with (processRow, JobSetStateIfRunning).
LEMMA FailedBooks ==
  ASSUME NEW row \in Rows, NEW n \in Nat, RowBooks(row, n), row.state = "running",
         NEW claim, claim.attempt = row.attempt,
         claim.maxRetry = effectiveMaxRetry(row), NEW noRetry \in BOOLEAN, NEW t
  PROVE  RowBooks(Settled(row, FailureState(claim, noRetry), TRUE, t), n)
  <1> DEFINE s == FailureState(claim, noRetry)
             r == Settled(row, s, TRUE, t)
  <1>1. /\ s \in {"discarded", "retryable"}
        /\ s = "retryable" => row.attempt < effectiveMaxRetry(row)
    <2>1. row.attempt \in Nat /\ effectiveMaxRetry(row) \in Nat
      BY Zenon, LimitType DEF Rows
    <2>q. QED BY <2>1 DEF FailureState
  <1>2. /\ r.attempt = row.attempt /\ r.errors = row.errors + 1
        /\ r.maxRetry = row.maxRetry
        /\ r.state = IF s = "retryable" THEN "available" ELSE s
    BY Zenon DEF Settled, Rows
  <1> HIDE DEF r, s
  <1>3. effectiveMaxRetry(r) = effectiveMaxRetry(row)
    BY Zenon, <1>2 DEF effectiveMaxRetry
  <1>4. InProgress(r) = 0 /\ InProgress(row) = 1
    BY Zenon, <1>1, <1>2 DEF InProgress
  <1>5. /\ row.attempt = row.errors + n + 1 /\ row.errors < effectiveMaxRetry(row)
        /\ row.errors \in Nat
    BY Zenon, <1>4 DEF RowBooks, TerminalStates, Rows
  <1>6. r.attempt = r.errors + n + InProgress(r)
    BY <1>2, <1>4, <1>5
  <1>7. r.errors <= effectiveMaxRetry(r)
    BY <1>2, <1>3, <1>5, LimitType
  <1>8. r.state \notin TerminalStates => s = "retryable"
    BY Zenon, <1>1, <1>2 DEF TerminalStates
  <1>9. s = "retryable" => r.errors < effectiveMaxRetry(r)
    BY <1>1, <1>2, <1>3, <1>5, LimitType
  <1>b. RowBooks(r, n)
    BY Zenon, <1>6, <1>7, <1>8, <1>9 DEF RowBooks
  <1>q. QED BY Zenon, <1>b DEF r, s

\* A cancelled row keeps its books (JobCancel).
LEMMA CancelledBooks ==
  ASSUME NEW row \in Rows, NEW n, RowBooks(row, n),
         row.state \in {"available", "scheduled"}
  PROVE  RowBooks([row EXCEPT !.state = "cancelled", !.finalized = TRUE], n)
  <1> DEFINE r == [row EXCEPT !.state = "cancelled", !.finalized = TRUE]
  <1>1. /\ r.attempt = row.attempt /\ r.errors = row.errors
        /\ r.maxRetry = row.maxRetry /\ r.state = "cancelled"
    BY Zenon DEF Rows
  <1> HIDE DEF r
  <1>b. RowBooks(r, n)
    BY Zenon, <1>1 DEF RowBooks, InProgress, effectiveMaxRetry, TerminalStates
  <1>q. QED BY Zenon, <1>b DEF r

-----------------------------------------------------------------------------
(* The steps of the protocol keep the books.                               *)

\* A step that writes one row with good books.
LEMMA OneRowBooks ==
  ASSUME TypeOK, Books, NEW j \in JobIDs, NEW row,
         jobs' = [jobs EXCEPT ![j] = row], UNCHANGED <<seq, replayed, rescues>>,
         j \notin replayed => RowBooks(row, rescues[j])
  PROVE  Books'
  <1>1. jobs'[j] = row /\ \A i \in JobIDs \ {j} : jobs'[i] = jobs[i]
    BY Zenon DEF TypeOK, StoreTypeOK
  <1>2. \A i \in JobIDs : jobs'[i].state # "none" /\ i \notin replayed' =>
          RowBooks(jobs'[i], rescues'[i])
    BY Zenon, <1>1 DEF Books, Exists
  <1>q. QED BY Zenon, <1>2 DEF Books, Exists

\* A step that leaves the job table alone.
LEMMA IdleBooks ==
  ASSUME Books, UNCHANGED <<jobs, seq, replayed, rescues>>
  PROVE  Books'
  BY Zenon DEF Books, Exists, RowBooks, InProgress, effectiveMaxRetry

\* What a matching claim says about its row.
LEMMA MatchedRow ==
  ASSUME TypeOK, Books, NEW g \in Goroutines, claims[g] # Idle,
         MatchesClaim(jobs[claims[g].job], claims[g])
  PROVE  LET j == claims[g].job IN
         /\ j \in JobIDs /\ Exists(j) /\ jobs[j] \in Rows /\ jobs[j].state = "running"
         /\ rescues[j] \in Nat
         /\ j \notin replayed => RowBooks(jobs[j], rescues[j])
  <1>1. claims[g].job \in JobIDs
    BY Zenon DEF TypeOK, Claims
  <1>2. jobs[claims[g].job].state = "running"
    BY Zenon DEF MatchesClaim
  <1>3. Exists(claims[g].job)
    BY Zenon, <1>2 DEF Exists
  <1>q. QED BY Zenon, <1>1, <1>2, <1>3, RowType DEF TypeOK, Books

\* A fenced state change keeps the books if the row it writes does.
LEMMA SetStateBooks ==
  ASSUME TypeOK, Books, NEW g \in Goroutines, claims[g] # Idle, NEW row,
         JobSetStateIfRunning(claims[g], row), UNCHANGED <<replayed, rescues>>,
         MatchesClaim(jobs[claims[g].job], claims[g]) /\ claims[g].job \notin replayed
           => RowBooks(row, rescues[claims[g].job])
  PROVE  Books'
  <1>1. CASE MatchesClaim(jobs[claims[g].job], claims[g])
    BY Zenon, <1>1, MatchedRow, OneRowBooks DEF JobSetStateIfRunning
  <1>2. CASE ~MatchesClaim(jobs[claims[g].job], claims[g])
    BY Zenon, <1>2, IdleBooks DEF JobSetStateIfRunning
  <1>q. QED BY Zenon, <1>1, <1>2

\* An insert opens new books (JobInsertMany).
LEMMA EnqueueBooks ==
  ASSUME TypeOK, Books, Enqueue
  PROVE  Books'
  <1>1. PICK c \in InsertChoices :
          JobInsert(c.queue, c.priority, c.runAt, c.maxRetry, c.uniqueKey)
    BY Zenon DEF Enqueue
  <1> DEFINE n == seq + 1
             row == NewRow(c.queue, c.priority, c.runAt, c.maxRetry, c.uniqueKey)
  <1>2. seq < MaxJobs /\ seq' = n /\ jobs' = [jobs EXCEPT ![n] = row]
    BY Zenon, <1>1 DEF JobInsert
  <1>3. n \in JobIDs /\ seq \in Nat
    BY <1>2, StoreAssumption DEF TypeOK, StoreTypeOK, JobIDs
  <1>4. replayed' = replayed /\ rescues' = rescues
    BY Zenon DEF Enqueue, history
  <1>5. row \in Rows
    <2>1. StoreTypeOK'
      BY Zenon, <1>1, JobInsertType DEF TypeOK
    <2>2. jobs'[n] = row
      BY Zenon, <1>2, <1>3 DEF TypeOK, StoreTypeOK
    <2>3. row.state # "none"
      BY Zenon DEF NewRow
    <2>q. QED BY <1>3, <2>1, <2>2, <2>3 DEF StoreTypeOK, NoRow
  <1>6. rescues[n] = 0
    BY <1>3 DEF Books
  <1>7. RowBooks(row, rescues[n])
    BY Zenon, <1>5, <1>6, NewBooks
  <1> HIDE DEF row
  <1>8. jobs'[n] = row /\ \A i \in JobIDs \ {n} : jobs'[i] = jobs[i]
    BY Zenon, <1>2, <1>3 DEF TypeOK, StoreTypeOK
  <1>9. \A i \in JobIDs : jobs'[i].state # "none" /\ i \notin replayed' =>
          RowBooks(jobs'[i], rescues'[i])
    BY Zenon, <1>4, <1>7, <1>8 DEF Books, Exists
  <1>10. \A i \in JobIDs : i > seq' => rescues'[i] = 0
    BY <1>2, <1>3, <1>4 DEF Books, JobIDs
  <1>q. QED BY Zenon, <1>9, <1>10 DEF Books, Exists

\* A fetch charges one attempt (JobFetchBatch).
LEMMA FetchBooks ==
  ASSUME TypeOK, Books, NEW p \in Pools, Fetch(p)
  PROVE  Books'
  <1>1. PICK q \in Queues, j \in JobIDs :
          JobFetch(q, j, WorkerIDOf[p], StuckJobTimeout[p])
    BY Zenon DEF Fetch
  <1>2. UNCHANGED <<seq, replayed, rescues>>
    BY Zenon, <1>1 DEF Fetch, JobFetch, history
  <1>3. ASSUME NEW i \in JobIDs, Due(i, q)
        PROVE  /\ jobs[i] \in Rows /\ jobs[i].state \in {"available", "scheduled"}
               /\ rescues[i] \in Nat
               /\ i \notin replayed => RowBooks(jobs[i], rescues[i])
    BY Zenon, <1>3, RowType DEF Due, Exists, TypeOK, Books
  <1>4. Due(j, q)
    BY Zenon, <1>1 DEF JobFetch
  <1>5. j \notin replayed =>
          RowBooks(Claimed(jobs[j], WorkerIDOf[p], StuckJobTimeout[p]), rescues[j])
    BY Zenon, <1>3, <1>4, ClaimedBooks
  <1>6. \A i \in JobIDs : Due(i, q) /\ i \notin replayed =>
          RowBooks([jobs[i] EXCEPT !.state = "available"], rescues[i])
    BY Zenon, <1>3, PromotedBooks
  <1>7. jobs' = [i \in JobIDs |->
          IF i = j THEN Claimed(jobs[j], WorkerIDOf[p], StuckJobTimeout[p])
          ELSE IF Due(i, q) THEN [jobs[i] EXCEPT !.state = "available"] ELSE jobs[i]]
    BY Zenon, <1>1 DEF JobFetch
  <1>8. ASSUME NEW i \in JobIDs, jobs'[i].state # "none", i \notin replayed
        PROVE  RowBooks(jobs'[i], rescues[i])
    <2>1. CASE i = j
      BY Zenon, <1>5, <1>7, <1>8, <2>1
    <2>2. CASE i # j /\ Due(i, q)
      BY Zenon, <1>6, <1>7, <1>8, <2>2
    <2>3. CASE i # j /\ ~Due(i, q)
      BY Zenon, <1>7, <1>8, <2>3 DEF Books, Exists
    <2>q. QED BY Zenon, <2>1, <2>2, <2>3
  <1>q. QED BY Zenon, <1>2, <1>8 DEF Books, Exists

\* A rescue charges the attempts it takes away (JobRescueStuck).
LEMMA RescueBooks ==
  ASSUME TypeOK, Books, NEW p \in Pools, NEW q \in Queues, Rescue(p, q),
         \A j \in JobIDs : Exists(j) => j <= seq
  PROVE  Books'
  <1> DEFINE Hit(j) == Stuck(jobs[j], StuckJobTimeout[p]) /\ jobs[j].queue = q
  <1>1. /\ jobs' = [j \in JobIDs |-> IF Hit(j) THEN Rescued(jobs[j]) ELSE jobs[j]]
        /\ rescues' = [j \in JobIDs |-> IF Hit(j) THEN rescues[j] + 1 ELSE rescues[j]]
        /\ UNCHANGED <<seq, replayed>>
    BY Zenon DEF Rescue, JobRescueStuck
  <1>2. ASSUME NEW j \in JobIDs, Hit(j)
        PROVE  /\ jobs[j] \in Rows /\ jobs[j].state = "running" /\ Exists(j)
               /\ rescues[j] \in Nat
    BY Zenon, <1>2, RowType DEF Stuck, Exists, TypeOK
  <1>3. ASSUME NEW j \in JobIDs, Hit(j), j \notin replayed
        PROVE  RowBooks(Rescued(jobs[j]), rescues[j] + 1)
    BY Zenon, <1>2, <1>3, RescuedBooks DEF Books
  <1>4. ASSUME NEW j \in JobIDs, jobs'[j].state # "none", j \notin replayed
        PROVE  RowBooks(jobs'[j], rescues'[j])
    <2>1. CASE Hit(j)
      BY Zenon, <1>1, <1>3, <1>4, <2>1
    <2>2. CASE ~Hit(j)
      BY Zenon, <1>1, <1>4, <2>2 DEF Books, Exists
    <2>q. QED BY Zenon, <2>1, <2>2
  <1>5. ASSUME NEW j \in JobIDs, j > seq
        PROVE  rescues'[j] = 0
    <2>1. ~Hit(j)
      BY <1>2, <1>5 DEF TypeOK, StoreTypeOK, JobIDs
    <2>q. QED BY Zenon, <1>1, <1>5, <2>1 DEF Books
  <1>q. QED BY Zenon, <1>1, <1>4, <1>5 DEF Books, Exists

\* Every step of a goroutine keeps the books: the claim of a matching row was
\* made with the row's retry limit.
LEMMA GoroutineBooks ==
  ASSUME TypeOK, Books, DistinctTokens, NEW g \in Goroutines, GoroutineStep(g)
  PROVE  Books'
  <1> DEFINE j == claims[g].job
  <1>1. ASSUME Holding(g) \/ BeatDue(g)
        PROVE  claims[g] # Idle /\ j \in JobIDs
    BY <1>1 DEF Holding, BeatDue, Beating, Idle, TypeOK, Claims
  <1>2. CASE Start(g)
    <2>1. claims[g] # Idle /\ JobMarkStarted(claims[g]) /\ UNCHANGED <<replayed, rescues>>
      BY Zenon, <1>1, <1>2 DEF Start, Holding, history
    <2>2. CASE MatchesClaim(jobs[j], claims[g])
      <3>1. jobs' = [jobs EXCEPT ![j] = [jobs[j] EXCEPT !.started = TRUE]] /\ seq' = seq
        BY Zenon, <2>1, <2>2 DEF JobMarkStarted
      <3>2. /\ j \in JobIDs /\ jobs[j] \in Rows
            /\ j \notin replayed => RowBooks(jobs[j], rescues[j])
        BY Zenon, <2>1, <2>2, MatchedRow
      <3>3. /\ [jobs[j] EXCEPT !.started = TRUE].attempt = jobs[j].attempt
            /\ [jobs[j] EXCEPT !.started = TRUE].errors = jobs[j].errors
            /\ [jobs[j] EXCEPT !.started = TRUE].maxRetry = jobs[j].maxRetry
            /\ [jobs[j] EXCEPT !.started = TRUE].state = jobs[j].state
        BY Zenon, <3>2 DEF Rows
      <3>4. j \notin replayed => RowBooks([jobs[j] EXCEPT !.started = TRUE], rescues[j])
        BY Zenon, <3>2, <3>3, SameBooks
      <3>q. QED BY Zenon, <2>1, <3>1, <3>2, <3>4, OneRowBooks
    <2>3. CASE ~MatchesClaim(jobs[j], claims[g])
      BY Zenon, <2>1, <2>3, IdleBooks DEF JobMarkStarted
    <2>q. QED BY Zenon, <2>2, <2>3
  <1>3. CASE YieldWaiting(g) \/ YieldHandled(g)
    <2>1. /\ claims[g] # Idle /\ UNCHANGED <<replayed, rescues>>
          /\ JobSetStateIfRunning(claims[g], Yielded(jobs[j]))
      BY Zenon, <1>1, <1>3 DEF YieldWaiting, YieldHandled, Yield, SetState, Holding, history
    <2>2. MatchesClaim(jobs[j], claims[g]) /\ j \notin replayed
            => RowBooks(Yielded(jobs[j]), rescues[j])
      BY Zenon, <2>1, MatchedRow, YieldedBooks
    <2>q. QED BY Zenon, <2>1, <2>2, SetStateBooks
  <1>4. CASE Complete(g)
    <2>1. /\ claims[g] # Idle /\ UNCHANGED <<replayed, rescues>>
          /\ JobSetStateIfRunning(claims[g], Settled(jobs[j], "completed", FALSE, 0))
      BY Zenon, <1>1, <1>4 DEF Complete, SetState, Holding, history
    <2>2. MatchesClaim(jobs[j], claims[g]) /\ j \notin replayed
            => RowBooks(Settled(jobs[j], "completed", FALSE, 0), rescues[j])
      BY Zenon, <2>1, MatchedRow, CompletedBooks
    <2>q. QED BY Zenon, <2>1, <2>2, SetStateBooks
  <1>5. CASE Fail(g)
    <2>1. PICK noRetry \in BOOLEAN, t \in RunDelays :
            JobSetStateIfRunning(claims[g],
              Settled(jobs[j], FailureState(claims[g], noRetry), TRUE, t))
      BY Zenon, <1>5 DEF Fail, SetState
    <2>2. claims[g] # Idle /\ Holding(g) /\ UNCHANGED <<replayed, rescues>>
      BY Zenon, <1>1, <1>5 DEF Fail, Holding, history
    <2>3. ASSUME MatchesClaim(jobs[j], claims[g]), j \notin replayed
          PROVE  RowBooks(Settled(jobs[j], FailureState(claims[g], noRetry), TRUE, t),
                          rescues[j])
      <3>1. /\ jobs[j] \in Rows /\ jobs[j].state = "running" /\ rescues[j] \in Nat
            /\ RowBooks(jobs[j], rescues[j]) /\ Exists(j)
        BY Zenon, <2>2, <2>3, MatchedRow
      <3>2. claims[g].attempt = jobs[j].attempt
        BY Zenon, <2>3 DEF MatchesClaim
      <3>3. claims[g].maxRetry = effectiveMaxRetry(jobs[j])
        BY Zenon, <2>2, <3>1 DEF DistinctTokens
      <3>q. QED BY Zenon, <3>1, <3>2, <3>3, FailedBooks
    <2>q. QED BY Zenon, <2>1, <2>2, <2>3, SetStateBooks
  <1>6. CASE Heartbeat(g)
    <2> DEFINE row == [jobs[j] EXCEPT !.lease = StuckJobTimeout[g[1]]]
    <2>1. /\ claims[g] # Idle /\ UNCHANGED <<replayed, rescues>>
          /\ JobHeartbeat(claims[g], StuckJobTimeout[g[1]])
      BY Zenon, <1>1, <1>6 DEF Heartbeat, history
    <2>2. CASE MatchesClaim(jobs[j], claims[g])
      <3>1. jobs' = [jobs EXCEPT ![j] = row] /\ seq' = seq
        BY Zenon, <2>1, <2>2 DEF JobHeartbeat
      <3>2. /\ j \in JobIDs /\ jobs[j] \in Rows
            /\ j \notin replayed => RowBooks(jobs[j], rescues[j])
        BY Zenon, <2>1, <2>2, MatchedRow
      <3>3. /\ row.attempt = jobs[j].attempt /\ row.errors = jobs[j].errors
            /\ row.maxRetry = jobs[j].maxRetry /\ row.state = jobs[j].state
        BY Zenon, <3>2 DEF Rows
      <3>4. j \notin replayed => RowBooks(row, rescues[j])
        BY Zenon, <3>2, <3>3, SameBooks
      <3>q. QED BY Zenon, <2>1, <3>1, <3>2, <3>4, OneRowBooks
    <2>3. CASE ~MatchesClaim(jobs[j], claims[g])
      BY Zenon, <2>1, <2>3, IdleBooks DEF JobHeartbeat
    <2>q. QED BY Zenon, <2>2, <2>3
  <1>7. CASE Close(g) \/ HeartbeatError(g) \/ Stall(g) \/ SetStateError(g)
    BY Zenon, <1>7, IdleBooks DEF Close, HeartbeatError, Stall, SetStateError, history
  <1>q. QED BY Zenon, <1>2, <1>3, <1>4, <1>5, <1>6, <1>7 DEF GoroutineStep

\* Every step of an operator keeps the books; a rescheduled job leaves them.
LEMMA OperatorBooks ==
  ASSUME TypeOK, Books, OperatorStep
  PROVE  Books'
  <1>1. ASSUME NEW j \in JobIDs, Cancel(j)
        PROVE  Books'
    <2> DEFINE row == [jobs[j] EXCEPT !.state = "cancelled", !.finalized = TRUE]
    <2>1. jobs[j].state \in {"available", "scheduled"} /\ UNCHANGED <<seq, replayed, rescues>>
      BY Zenon, <1>1 DEF Cancel, JobCancel, history
    <2>2. jobs' = [jobs EXCEPT ![j] = row]
      BY ZenonT(30), <1>1 DEF Cancel, JobCancel, TypeOK, StoreTypeOK
    <2>3. jobs[j] \in Rows /\ Exists(j)
      BY Zenon, <2>1, RowType DEF Exists, TypeOK
    <2>4. j \notin replayed => RowBooks(row, rescues[j])
      BY Zenon, <2>1, <2>3, CancelledBooks DEF Books
    <2>q. QED BY Zenon, <2>1, <2>2, <2>4, OneRowBooks
  <1>2. ASSUME NEW j \in JobIDs, Delete(j)
        PROVE  Books'
    <2>1. jobs' = [jobs EXCEPT ![j] = NoRow] /\ UNCHANGED <<seq, replayed, rescues>>
      BY Zenon, <1>2 DEF Delete, JobDelete, history
    <2>2. jobs'[j].state = "none" /\ \A i \in JobIDs \ {j} : jobs'[i] = jobs[i]
      BY Zenon, <2>1 DEF TypeOK, StoreTypeOK, NoRow
    <2>q. QED BY Zenon, <2>1, <2>2 DEF Books, Exists
  <1>3. ASSUME NEW j \in JobIDs, Reschedule(j)
        PROVE  Books'
    <2>1. PICK t \in RunDelays : JobReschedule(j, t)
      BY Zenon, <1>3 DEF Reschedule
    <2>2. /\ jobs' = [jobs EXCEPT ![j].state = "scheduled", ![j].runAt = t]
          /\ replayed' = replayed \cup {j} /\ UNCHANGED <<seq, rescues>>
      BY Zenon, <1>3, <2>1 DEF Reschedule, JobReschedule
    <2>3. \A i \in JobIDs \ {j} : jobs'[i] = jobs[i]
      BY Zenon, <2>2 DEF TypeOK, StoreTypeOK
    <2>q. QED BY Zenon, <2>2, <2>3 DEF Books, Exists
  <1>4. ASSUME NEW q \in Queues, Pause(q) \/ Resume(q)
        PROVE  Books'
    BY Zenon, <1>4, IdleBooks DEF Pause, Resume, QueuePause, QueueResume, history
  <1>q. QED BY Zenon, <1>1, <1>2, <1>3, <1>4 DEF OperatorStep

\* Time keeps the books (Elapse).
LEMMA TickBooks ==
  ASSUME TypeOK, Books, Tick
  PROVE  Books'
  <1>1. jobs' = [j \in JobIDs |-> Aged(jobs[j])] /\ UNCHANGED <<seq, replayed, rescues>>
    BY Zenon DEF Tick, Elapse, history
  <1>2. ASSUME NEW j \in JobIDs, jobs'[j].state # "none", j \notin replayed
        PROVE  RowBooks(jobs'[j], rescues[j])
    <2>1. jobs[j].state # "none"
      BY Zenon, <1>1, <1>2 DEF Aged
    <2>2. jobs[j] \in Rows /\ RowBooks(jobs[j], rescues[j])
      BY Zenon, <1>2, <2>1, RowType DEF Exists, TypeOK, Books
    <2>3. /\ jobs'[j].attempt = jobs[j].attempt /\ jobs'[j].errors = jobs[j].errors
          /\ jobs'[j].maxRetry = jobs[j].maxRetry /\ jobs'[j].state = jobs[j].state
      BY Zenon, <1>1, <2>1, <2>2 DEF Aged, Rows
    <2>q. QED BY Zenon, <2>2, <2>3, SameBooks
  <1>q. QED BY Zenon, <1>1, <1>2 DEF Books, Exists

\* The books are kept from the start and by every step.
LEMMA BooksStep ==
  TypeOK /\ DistinctTokens /\ Books /\ [Next]_vars => Books'
  <1> SUFFICES ASSUME TypeOK, DistinctTokens, Books, [Next]_vars
               PROVE  Books'
    BY Zenon
  <1>1. CASE Enqueue
    BY Zenon, <1>1, EnqueueBooks
  <1>2. CASE \E g \in Goroutines : GoroutineStep(g)
    BY Zenon, <1>2, GoroutineBooks
  <1>3. ASSUME NEW p \in Pools, PoolStep(p)
        PROVE  Books'
    <2>1. CASE Fetch(p)
      BY Zenon, <2>1, FetchBooks
    <2>2. CASE \E q \in Queues : Rescue(p, q)
      BY Zenon, <2>2, RescueBooks DEF DistinctTokens
    <2>3. CASE Shutdown(p) \/ CancelContext(p) \/ Restart(p) \/ Crash(p)
      BY Zenon, <2>3, IdleBooks DEF Shutdown, CancelContext, Restart, Crash, history
    <2>q. QED BY Zenon, <1>3, <2>1, <2>2, <2>3 DEF PoolStep
  <1>4. CASE OperatorStep
    BY Zenon, <1>4, OperatorBooks
  <1>5. CASE Tick
    BY Zenon, <1>5, TickBooks
  <1>6. CASE UNCHANGED vars
    BY Zenon, <1>6, IdleBooks DEF vars
  <1>q. QED BY Zenon, <1>1, <1>2, <1>3, <1>4, <1>5, <1>6 DEF Next

\* The books hold in every state.
LEMMA BooksAlways == Spec => []Books
  <1>1. Init => Books
    BY DEF Init, StoreInit, Books, Exists, NoRow
  <1>q. QED BY <1>1, BooksStep, TypeCorrect, TokensDistinct, PTL DEF Spec

\* Every attempt of a job nobody rescheduled is an error, the completion, a
\* rescue or in progress (JobFetchBatch, JobSetStateIfRunning, JobRescueStuck).
THEOREM AttemptsCharged == Spec => []AttemptsAccounted
  <1>1. Books => AttemptsAccounted
    BY Zenon DEF Books, RowBooks, InProgress, AttemptsAccounted
  <1>q. QED BY <1>1, BooksAlways, PTL

\* A job nobody rescheduled records at most MaxRetry errors, whatever is
\* rescued, yielded, lost or crashes (processRow, JobSetStateIfRunning).
THEOREM RetriesBounded == Spec => []RetryBudget
  <1>1. Books => RetryBudget
    BY Zenon DEF Books, RowBooks, RetryBudget
  <1>q. QED BY <1>1, BooksAlways, PTL

-----------------------------------------------------------------------------
(* Unique keys.                                                            *)

\* What no step but an insert does: bring a job back, change its key, or make
\* a finished job active unless an operator reschedules it.
KeysKept ==
  /\ \A j \in JobIDs :
       jobs'[j].state # "none" =>
         /\ jobs[j].state # "none"
         /\ jobs'[j].uniqueKey = jobs[j].uniqueKey
         /\ jobs[j].state \in TerminalStates =>
              jobs'[j].state \in TerminalStates \/ j \in replayed'
  /\ replayed \subseteq replayed'

\* A step that keeps the keys keeps them unique.
LEMMA KeptUnique ==
  ASSUME UniqueKeys, KeysKept
  PROVE  UniqueKeys'
  BY Zenon DEF UniqueKeys, KeysKept, Exists, Terminal

-----------------------------------------------------------------------------
(* The store operations keep the keys.                                     *)

\* A write to one active row that leaves the key alone.
LEMMA OneRowKept ==
  ASSUME TypeOK, NEW j \in JobIDs, Active(j), NEW row,
         row.uniqueKey = jobs[j].uniqueKey,
         jobs' = [jobs EXCEPT ![j] = row], replayed' = replayed
  PROVE  KeysKept
  BY Zenon DEF KeysKept, TypeOK, StoreTypeOK, Active, Exists, Terminal

\* A write that leaves states and keys alone.
LEMMA SameRowsKept ==
  ASSUME replayed' = replayed,
         \A j \in JobIDs : /\ jobs'[j].state = jobs[j].state
                           /\ jobs[j].state # "none" =>
                                jobs'[j].uniqueKey = jobs[j].uniqueKey
  PROVE  KeysKept
  BY Zenon DEF KeysKept

\* Claiming, yielding, settling and rescuing leave the key of a row alone.
LEMMA RowKeys ==
  ASSUME NEW row \in Rows
  PROVE  /\ \A w, d : Claimed(row, w, d).uniqueKey = row.uniqueKey
         /\ Yielded(row).uniqueKey = row.uniqueKey
         /\ \A s, f, t : Settled(row, s, f, t).uniqueKey = row.uniqueKey
         /\ Rescued(row).uniqueKey = row.uniqueKey
  BY Zenon DEF Rows, Claimed, Yielded, Settled, Rescued

\* An insert adds a job to a key only if no job blocks it (findUniqueJob).
LEMMA InsertUnique ==
  ASSUME TypeOK, UniqueKeys, Enqueue, \A j \in JobIDs : Exists(j) => j <= seq
  PROVE  UniqueKeys'
  <1>1. PICK c \in InsertChoices :
          JobInsert(c.queue, c.priority, c.runAt, c.maxRetry, c.uniqueKey)
    BY Zenon DEF Enqueue
  <1> DEFINE n == seq + 1
             row == NewRow(c.queue, c.priority, c.runAt, c.maxRetry, c.uniqueKey)
  <1>2. /\ n \in JobIDs /\ jobs' = [jobs EXCEPT ![n] = row]
        /\ replayed' = replayed
        /\ c.uniqueKey # NoKey => findUniqueJob(c.uniqueKey) = {}
    <2>1. seq < MaxJobs
      BY Zenon, <1>1 DEF JobInsert
    <2>2. n \in JobIDs
      BY <2>1, StoreAssumption DEF TypeOK, StoreTypeOK, JobIDs
    <2>3. jobs' = [jobs EXCEPT ![n] = row]
      BY Zenon, <1>1 DEF JobInsert
    <2>4. c.uniqueKey # NoKey => findUniqueJob(c.uniqueKey) = {}
      BY Zenon, <1>1 DEF JobInsert
    <2>5. replayed' = replayed
      BY Zenon DEF Enqueue, history
    <2>q. QED BY Zenon, <2>2, <2>3, <2>4, <2>5
  <1>3. row.uniqueKey = c.uniqueKey
    BY Zenon DEF NewRow
  <1>4. ~Exists(n)
    BY <1>2 DEF TypeOK, StoreTypeOK, JobIDs
  <1>5. /\ \A j \in JobIDs \ {n} : jobs'[j] = jobs[j]
        /\ jobs'[n] = row
    BY Zenon, <1>2 DEF TypeOK, StoreTypeOK
  <1>6. ASSUME NEW j \in JobIDs, j # n, Exists(j), jobs[j].uniqueKey = c.uniqueKey,
               c.uniqueKey # NoKey
        PROVE  c.uniqueKey \notin PermanentKeys /\ Terminal(j)
    BY Zenon, <1>2, <1>6 DEF findUniqueJob
  <1>7. SUFFICES ASSUME NEW i \in JobIDs, NEW j \in JobIDs, i # j,
                        jobs'[i].state # "none", jobs'[j].state # "none",
                        jobs'[i].uniqueKey = jobs'[j].uniqueKey,
                        jobs'[i].uniqueKey # NoKey
                 PROVE  /\ jobs'[i].uniqueKey \notin PermanentKeys
                        /\ \/ jobs'[i].state \in TerminalStates
                           \/ jobs'[j].state \in TerminalStates
                           \/ i \in replayed' \/ j \in replayed'
    BY Zenon DEF UniqueKeys, Exists, Terminal
  <1>8. CASE i # n /\ j # n
    BY <1>2, <1>5, <1>7, <1>8 DEF UniqueKeys, Exists, Terminal
  <1>9. CASE i = n
    BY Zenon, <1>3, <1>5, <1>6, <1>7, <1>9 DEF Exists, Terminal
  <1>10. CASE j = n
    BY Zenon, <1>3, <1>5, <1>6, <1>7, <1>10 DEF Exists, Terminal
  <1>q. QED BY Zenon, <1>8, <1>9, <1>10

\* A fetch claims one active row and promotes others (JobFetchBatch).
LEMMA FetchKept ==
  ASSUME TypeOK, NEW p \in Pools, Fetch(p)
  PROVE  KeysKept
  <1>1. PICK q \in Queues, j \in JobIDs :
          JobFetch(q, j, WorkerIDOf[p], StuckJobTimeout[p])
    BY Zenon DEF Fetch
  <1>2. replayed' = replayed
    BY Zenon DEF Fetch, history
  <1>3. ASSUME NEW i \in JobIDs, Due(i, q)
        PROVE  jobs[i] \in Rows /\ jobs[i].state \notin TerminalStates \cup {"none"}
    BY Zenon, <1>3, RowType DEF Due, Exists, TerminalStates, TypeOK
  <1>4. ASSUME NEW i \in JobIDs, Due(i, q)
        PROVE  [jobs[i] EXCEPT !.state = "available"].uniqueKey = jobs[i].uniqueKey
    BY Zenon, <1>3, <1>4 DEF Rows
  <1>5. jobs' = [i \in JobIDs |->
          IF i = j THEN Claimed(jobs[j], WorkerIDOf[p], StuckJobTimeout[p])
          ELSE IF Due(i, q) THEN [jobs[i] EXCEPT !.state = "available"] ELSE jobs[i]]
    BY Zenon, <1>1 DEF JobFetch
  <1>6. Claimed(jobs[j], WorkerIDOf[p], StuckJobTimeout[p]).uniqueKey = jobs[j].uniqueKey
    BY <1>1, <1>3, RowKeys DEF JobFetch
  <1>7. Due(j, q)
    BY Zenon, <1>1 DEF JobFetch
  <1>q. QED BY Zenon, <1>2, <1>3, <1>4, <1>5, <1>6, <1>7 DEF KeysKept

\* A goroutine's fenced state change writes to a running row
\* (JobSetStateIfRunning).
LEMMA SetStateKept ==
  ASSUME TypeOK, NEW g \in Goroutines, claims[g] # Idle, NEW row,
         JobSetStateIfRunning(claims[g], row), replayed' = replayed,
         jobs[claims[g].job] \in Rows => row.uniqueKey = jobs[claims[g].job].uniqueKey
  PROVE  KeysKept
  <1>1. claims[g].job \in JobIDs
    BY Zenon DEF TypeOK, Claims
  <1>2. CASE MatchesClaim(jobs[claims[g].job], claims[g])
    <2>1. Active(claims[g].job) /\ jobs[claims[g].job] \in Rows
      BY Zenon, <1>1, <1>2, RowType DEF MatchesClaim, Active, Exists, Terminal, TerminalStates, TypeOK
    <2>2. jobs' = [jobs EXCEPT ![claims[g].job] = row]
      BY Zenon, <1>2 DEF JobSetStateIfRunning
    <2>q. QED BY Zenon, <1>1, <2>1, <2>2, OneRowKept
  <1>3. CASE ~MatchesClaim(jobs[claims[g].job], claims[g])
    BY Zenon, <1>3, SameRowsKept DEF JobSetStateIfRunning
  <1>q. QED BY Zenon, <1>2, <1>3

-----------------------------------------------------------------------------
(* The steps of the protocol.                                              *)

\* Every step of a goroutine keeps the keys.
LEMMA GoroutineKept ==
  ASSUME TypeOK, NEW g \in Goroutines, GoroutineStep(g)
  PROVE  KeysKept
  <1>1. ASSUME Holding(g) \/ BeatDue(g)
        PROVE  claims[g] # Idle /\ claims[g].job \in JobIDs
    BY <1>1 DEF Holding, BeatDue, Beating, Idle, TypeOK, Claims
  <1>2. CASE Start(g)
    <2>1. claims[g].job \in JobIDs /\ JobMarkStarted(claims[g]) /\ replayed' = replayed
      BY Zenon, <1>1, <1>2 DEF Start, Holding, history
    <2>2. ASSUME NEW row \in Rows
          PROVE  [row EXCEPT !.started = TRUE].uniqueKey = row.uniqueKey
      BY Zenon DEF Rows
    <2>3. CASE MatchesClaim(jobs[claims[g].job], claims[g])
      <3>1. Active(claims[g].job) /\ jobs[claims[g].job] \in Rows
        BY Zenon, <2>1, <2>3, RowType DEF MatchesClaim, Active, Exists, Terminal, TerminalStates, TypeOK
      <3>2. jobs' = [jobs EXCEPT ![claims[g].job] =
                       [jobs[claims[g].job] EXCEPT !.started = TRUE]]
        BY Zenon, <2>1, <2>3 DEF JobMarkStarted
      <3>q. QED BY Zenon, <2>1, <2>2, <3>1, <3>2, OneRowKept
    <2>4. CASE ~MatchesClaim(jobs[claims[g].job], claims[g])
      BY Zenon, <2>1, <2>4, SameRowsKept DEF JobMarkStarted
    <2>q. QED BY Zenon, <2>3, <2>4
  <1>3. CASE YieldWaiting(g) \/ YieldHandled(g)
    <2>1. /\ claims[g] # Idle /\ replayed' = replayed
          /\ JobSetStateIfRunning(claims[g], Yielded(jobs[claims[g].job]))
      BY Zenon, <1>1, <1>3 DEF YieldWaiting, YieldHandled, Yield, SetState, Holding, history
    <2>q. QED BY Zenon, <2>1, RowKeys, SetStateKept
  <1>4. CASE Complete(g) \/ Fail(g)
    <2>1. PICK s, f, t :
            JobSetStateIfRunning(claims[g], Settled(jobs[claims[g].job], s, f, t))
      BY Zenon, <1>4 DEF Complete, Fail, SetState
    <2>2. claims[g] # Idle /\ replayed' = replayed
      BY Zenon, <1>1, <1>4 DEF Complete, Fail, Holding, history
    <2>q. QED BY <2>1, <2>2, RowKeys, SetStateKept
  <1>5. CASE Heartbeat(g)
    <2>1. /\ claims[g].job \in JobIDs /\ replayed' = replayed
          /\ JobHeartbeat(claims[g], StuckJobTimeout[g[1]])
      BY Zenon, <1>1, <1>5 DEF Heartbeat, history
    <2>2. ASSUME NEW row \in Rows
          PROVE  [row EXCEPT !.lease = StuckJobTimeout[g[1]]].uniqueKey = row.uniqueKey
      BY Zenon DEF Rows
    <2>3. CASE MatchesClaim(jobs[claims[g].job], claims[g])
      <3>1. Active(claims[g].job) /\ jobs[claims[g].job] \in Rows
        BY Zenon, <2>1, <2>3, RowType DEF MatchesClaim, Active, Exists, Terminal, TerminalStates, TypeOK
      <3>2. jobs' = [jobs EXCEPT ![claims[g].job] =
                       [jobs[claims[g].job] EXCEPT !.lease = StuckJobTimeout[g[1]]]]
        BY Zenon, <2>1, <2>3 DEF JobHeartbeat
      <3>q. QED BY Zenon, <2>1, <2>2, <3>1, <3>2, OneRowKept
    <2>4. CASE ~MatchesClaim(jobs[claims[g].job], claims[g])
      BY Zenon, <2>1, <2>4, SameRowsKept DEF JobHeartbeat
    <2>q. QED BY Zenon, <2>3, <2>4
  <1>6. CASE Close(g) \/ HeartbeatError(g) \/ Stall(g) \/ SetStateError(g)
    BY Zenon, <1>6, SameRowsKept DEF Close, HeartbeatError, Stall, SetStateError, history
  <1>q. QED BY Zenon, <1>2, <1>3, <1>4, <1>5, <1>6 DEF GoroutineStep

\* Every step of a pool keeps the keys.
LEMMA PoolKept ==
  ASSUME TypeOK, NEW p \in Pools, PoolStep(p)
  PROVE  KeysKept
  <1>1. CASE Fetch(p)
    BY Zenon, <1>1, FetchKept
  <1>2. CASE Shutdown(p) \/ CancelContext(p) \/ Restart(p) \/ Crash(p)
    BY Zenon, <1>2, SameRowsKept DEF Shutdown, CancelContext, Restart, Crash, history
  <1>3. ASSUME NEW q \in Queues, Rescue(p, q)
        PROVE  KeysKept
    <2>1. /\ replayed' = replayed
          /\ jobs' = [j \in JobIDs |->
               IF Stuck(jobs[j], StuckJobTimeout[p]) /\ jobs[j].queue = q
               THEN Rescued(jobs[j]) ELSE jobs[j]]
      BY Zenon, <1>3 DEF Rescue, JobRescueStuck
    <2>2. ASSUME NEW j \in JobIDs, Stuck(jobs[j], StuckJobTimeout[p])
          PROVE  /\ jobs[j].state \notin TerminalStates \cup {"none"}
                 /\ Rescued(jobs[j]).uniqueKey = jobs[j].uniqueKey
      <3>1. jobs[j].state = "running"
        BY Zenon, <2>2 DEF Stuck
      <3>2. jobs[j] \in Rows
        BY Zenon, <3>1, RowType DEF Exists, TypeOK
      <3>q. QED BY Zenon, <3>1, <3>2, RowKeys DEF TerminalStates
    <2>q. QED BY Zenon, <2>1, <2>2 DEF KeysKept
  <1>q. QED BY Zenon, <1>1, <1>2, <1>3 DEF PoolStep

\* Every step of an operator keeps the keys; a rescheduled job is noted.
LEMMA OperatorKept ==
  ASSUME TypeOK, OperatorStep
  PROVE  KeysKept
  <1>1. ASSUME NEW j \in JobIDs, Cancel(j)
        PROVE  KeysKept
    <2>1. /\ replayed' = replayed /\ jobs[j].state \in {"available", "scheduled"}
          /\ jobs' = [jobs EXCEPT ![j].state = "cancelled", ![j].finalized = TRUE]
      BY Zenon, <1>1 DEF Cancel, JobCancel, history
    <2>2. jobs[j] \in Rows
      BY Zenon, <2>1, RowType DEF Exists, TypeOK
    <2>3. /\ jobs'[j].uniqueKey = jobs[j].uniqueKey
          /\ \A i \in JobIDs \ {j} : jobs'[i] = jobs[i]
      BY Zenon, <2>1, <2>2 DEF TypeOK, StoreTypeOK, Rows
    <2>4. jobs[j].state \notin TerminalStates \cup {"none"}
      BY Zenon, <2>1 DEF TerminalStates
    <2>q. QED BY Zenon, <2>1, <2>3, <2>4 DEF KeysKept
  <1>2. ASSUME NEW j \in JobIDs, Delete(j)
        PROVE  KeysKept
    <2>1. replayed' = replayed /\ jobs' = [jobs EXCEPT ![j] = NoRow]
      BY Zenon, <1>2 DEF Delete, JobDelete, history
    <2>2. /\ jobs'[j].state = "none"
          /\ \A i \in JobIDs \ {j} : jobs'[i] = jobs[i]
      BY Zenon, <2>1 DEF TypeOK, StoreTypeOK, NoRow
    <2>q. QED BY Zenon, <2>1, <2>2 DEF KeysKept
  <1>3. ASSUME NEW j \in JobIDs, Reschedule(j)
        PROVE  KeysKept
    <2>1. PICK t \in RunDelays : JobReschedule(j, t)
      BY Zenon, <1>3 DEF Reschedule
    <2>2. /\ Exists(j) /\ replayed' = replayed \cup {j}
          /\ jobs' = [jobs EXCEPT ![j].state = "scheduled", ![j].runAt = t]
      BY Zenon, <1>3, <2>1 DEF Reschedule, JobReschedule
    <2>3. jobs[j] \in Rows
      BY Zenon, <2>2, RowType DEF TypeOK
    <2>4. /\ jobs'[j].uniqueKey = jobs[j].uniqueKey
          /\ \A i \in JobIDs \ {j} : jobs'[i] = jobs[i]
      BY Zenon, <2>2, <2>3 DEF TypeOK, StoreTypeOK, Rows
    <2>q. QED BY Zenon, <2>2, <2>4 DEF KeysKept, Exists
  <1>4. ASSUME NEW q \in Queues, Pause(q) \/ Resume(q)
        PROVE  KeysKept
    BY Zenon, <1>4, SameRowsKept DEF Pause, Resume, QueuePause, QueueResume, history
  <1>q. QED BY Zenon, <1>1, <1>2, <1>3, <1>4 DEF OperatorStep

\* Time leaves states and keys alone (Elapse).
LEMMA TickKept ==
  ASSUME TypeOK, Tick
  PROVE  KeysKept
  <1>1. replayed' = replayed /\ jobs' = [j \in JobIDs |-> Aged(jobs[j])]
    BY Zenon DEF Tick, Elapse, history
  <1>2. ASSUME NEW j \in JobIDs, jobs[j].state # "none"
        PROVE  /\ Aged(jobs[j]).state = jobs[j].state
               /\ Aged(jobs[j]).uniqueKey = jobs[j].uniqueKey
    <2>1. jobs[j] \in Rows
      BY Zenon, <1>2, RowType DEF Exists, TypeOK
    <2>q. QED BY Zenon, <1>2, <2>1 DEF Aged, Rows
  <1>3. ASSUME NEW j \in JobIDs, jobs[j].state = "none"
        PROVE  Aged(jobs[j]).state = "none"
    BY Zenon, <1>3 DEF Aged
  <1>q. QED BY Zenon, <1>1, <1>2, <1>3, SameRowsKept

\* One active job per key and one job per permanent key, whatever pools,
\* operators and time do between the inserts (JobInsertMany, findUniqueJob).
THEOREM KeysUnique == Spec => []UniqueKeys
  <1>1. Init => UniqueKeys
    BY DEF Init, StoreInit, UniqueKeys, Exists, NoRow
  <1>2. TypeOK /\ DistinctTokens /\ UniqueKeys /\ [Next]_vars => UniqueKeys'
    <2> SUFFICES ASSUME TypeOK, DistinctTokens, UniqueKeys, [Next]_vars
                 PROVE  UniqueKeys'
      BY Zenon
    <2>1. CASE Enqueue
      BY Zenon, <2>1, InsertUnique DEF DistinctTokens
    <2>2. CASE \E g \in Goroutines : GoroutineStep(g)
      BY Zenon, <2>2, GoroutineKept, KeptUnique
    <2>3. CASE \E p \in Pools : PoolStep(p)
      BY Zenon, <2>3, PoolKept, KeptUnique
    <2>4. CASE OperatorStep
      BY Zenon, <2>4, OperatorKept, KeptUnique
    <2>5. CASE Tick
      BY Zenon, <2>5, TickKept, KeptUnique
    <2>6. CASE UNCHANGED vars
      BY Zenon, <2>6, SameRowsKept, KeptUnique DEF vars
    <2>q. QED BY Zenon, <2>1, <2>2, <2>3, <2>4, <2>5, <2>6 DEF Next
  <1>q. QED BY <1>1, <1>2, TypeCorrect, TokensDistinct, PTL DEF Spec

-----------------------------------------------------------------------------
(* Healthy claims are kept.                                                *)

\* A live claim on a job nobody deleted or replayed, whose heartbeats reach
\* the store.
Served(g) ==
  /\ Holding(g) /\ Healthy(g) /\ StuckJobTimeout[g[1]] > 0
  /\ Exists(claims[g].job) /\ claims[g].job \notin replayed

\* Its lease runs out after its next heartbeat.
Covered(g) ==
  /\ Owns(g)
  /\ claims[g].beat \in Int
  /\ claims[g].beat >= 0 /\ claims[g].beat <= HeartbeatInterval[g[1]]
  /\ jobs[claims[g].job].lease \in Int
  /\ jobs[claims[g].job].lease > claims[g].beat

LeaseAhead == \A g \in Goroutines : Served(g) => Covered(g)

\* The step makes no claim a served one and leaves served claims alone.
KeepsServing ==
  \A g \in Goroutines : Served(g)' =>
    /\ Served(g)
    /\ claims'[g].job = claims[g].job
    /\ claims'[g].worker = claims[g].worker
    /\ claims'[g].attempt = claims[g].attempt
    /\ claims'[g].beat = claims[g].beat

\* The step leaves the token and the lease of served rows alone.
KeepsServedRows ==
  \A g \in Goroutines : Served(g) /\ Served(g)' =>
    LET j == claims[g].job IN
    /\ jobs'[j].state = jobs[j].state
    /\ jobs'[j].worker = jobs[j].worker
    /\ jobs'[j].attempt = jobs[j].attempt
    /\ jobs'[j].lease = jobs[j].lease

\* A step that leaves served claims and their rows alone keeps the leases
\* ahead of the heartbeats.
LEMMA FrameLeases ==
  ASSUME LeaseAhead, KeepsServing, KeepsServedRows
  PROVE  LeaseAhead'
  <1> SUFFICES ASSUME NEW g \in Goroutines, Served(g)'
               PROVE  Covered(g)'
    BY Zenon DEF LeaseAhead
  <1>1. /\ Served(g) /\ Covered(g)
        /\ claims'[g].job = claims[g].job /\ claims'[g].worker = claims[g].worker
        /\ claims'[g].attempt = claims[g].attempt /\ claims'[g].beat = claims[g].beat
    BY Zenon DEF KeepsServing, LeaseAhead
  <1>2. /\ jobs'[claims[g].job].state = jobs[claims[g].job].state
        /\ jobs'[claims[g].job].worker = jobs[claims[g].job].worker
        /\ jobs'[claims[g].job].attempt = jobs[claims[g].job].attempt
        /\ jobs'[claims[g].job].lease = jobs[claims[g].job].lease
    BY Zenon, <1>1 DEF KeepsServedRows
  <1>3. Holding(g)'
    BY Zenon DEF Served
  <1>q. QED BY Zenon, <1>1, <1>2, <1>3 DEF Covered, Owns, MatchesClaim

\* A served goroutine has a claim record, on a row of the table.
LEMMA ServedType ==
  ASSUME TypeOK, NEW g \in Goroutines, Served(g)
  PROVE  /\ claims[g].phase # "idle" /\ claims[g] \in Claims
         /\ claims[g].job \in JobIDs /\ jobs[claims[g].job] \in Rows
  <1>1. claims[g].phase # "idle" /\ claims[g] \in Claims
    BY Zenon, ClaimType DEF Served, Holding
  <1>2. claims[g].job \in JobIDs
    BY Zenon, <1>1 DEF Claims
  <1>q. QED BY Zenon, <1>1, <1>2, RowType DEF Served, TypeOK

\* Claims and contexts that do not change serve what they served before,
\* unless their job is new.
LEMMA SameClaimsServe ==
  ASSUME claims' = claims, pools' = pools, replayed \subseteq replayed',
         \A g \in Goroutines : claims[g].phase # "idle" =>
           (Exists(claims[g].job)' => Exists(claims[g].job))
  PROVE  KeepsServing
  BY Zenon DEF KeepsServing, Served, Holding, Healthy, Beating, CtxDone, Exists

\* A step of one goroutine that leaves the contexts alone, keeps or ends its
\* claim and never makes it healthy again serves what was served before.
LEMMA OneClaimServes ==
  ASSUME TypeOK, NEW g \in Goroutines, claims[g] \in Claims,
         pools' = pools, replayed' = replayed,
         \A j \in JobIDs : Exists(j)' => Exists(j),
         \A h \in Goroutines : h # g => claims'[h] = claims[h],
         Served(g)' => /\ Holding(g) /\ claims[g].healthy /\ ~claims[g].lost
                       /\ claims'[g].job = claims[g].job
                       /\ claims'[g].worker = claims[g].worker
                       /\ claims'[g].attempt = claims[g].attempt
                       /\ claims'[g].beat = claims[g].beat
  PROVE  KeepsServing
  <1> SUFFICES ASSUME NEW h \in Goroutines, Served(h)'
               PROVE  /\ Served(h)
                      /\ claims'[h].job = claims[h].job
                      /\ claims'[h].worker = claims[h].worker
                      /\ claims'[h].attempt = claims[h].attempt
                      /\ claims'[h].beat = claims[h].beat
    BY Zenon DEF KeepsServing
  <1>1. CASE h = g
    <2>1. claims[g].phase # "idle" /\ claims[g].job \in JobIDs
      BY Zenon, <1>1 DEF Claims, Holding
    <2>2. /\ pools[g[1]].ctx # "done" /\ HeartbeatInterval[g[1]] > 0
          /\ StuckJobTimeout[g[1]] > 0
      BY Zenon, <1>1 DEF Served, Healthy, Beating, CtxDone
    <2>3. Healthy(g)
      BY Zenon, <1>1, <2>1, <2>2 DEF Healthy, Beating, CtxDone
    <2>4. Exists(claims[g].job) /\ claims[g].job \notin replayed
      BY Zenon, <1>1, <2>1 DEF Served, Exists
    <2>q. QED BY Zenon, <1>1, <2>2, <2>3, <2>4 DEF Served
  <1>2. CASE h # g
    <2>1. claims'[h] = claims[h]
      BY Zenon, <1>2
    <2>2. Holding(h) /\ Healthy(h) /\ StuckJobTimeout[h[1]] > 0
      BY Zenon, <2>1 DEF Served, Holding, Healthy, Beating, CtxDone
    <2>3. claims[h].job \in JobIDs
      BY Zenon, <2>2, ClaimType DEF Holding, Claims
    <2>4. Exists(claims[h].job) /\ claims[h].job \notin replayed
      BY Zenon, <2>1, <2>3 DEF Served, Exists
    <2>q. QED BY Zenon, <2>1, <2>2, <2>4 DEF Served
  <1>q. QED BY Zenon, <1>1, <1>2

\* A goroutine's claim carries the WorkerID of its pool (fetchAndDispatch).
ClaimsNamed ==
  \A g \in Goroutines :
    claims[g].phase # "idle" => claims[g].worker = WorkerIDOf[g[1]]

\* A step that changes other fields of one goroutine's claim keeps the names.
LEMMA OneClaimNamed ==
  ASSUME ClaimsNamed, NEW g \in Goroutines,
         \A h \in Goroutines : h # g => claims'[h] = claims[h],
         claims'[g].phase # "idle" =>
           claims[g].phase # "idle" /\ claims'[g].worker = claims[g].worker
  PROVE  ClaimsNamed'
  BY Zenon DEF ClaimsNamed

\* No step renames a claim.
LEMMA NamedStep ==
  ASSUME TypeOK, ClaimsNamed, [Next]_vars
  PROVE  ClaimsNamed'
  <1>t. claims \in [Goroutines -> Claims \cup {Idle}]
    BY Zenon DEF TypeOK
  <1>s. ASSUME claims' = claims PROVE ClaimsNamed'
    BY Zenon, <1>s DEF ClaimsNamed
  <1>1. ASSUME NEW g \in Goroutines, GoroutineStep(g)
        PROVE  ClaimsNamed'
    <2>1. \A h \in Goroutines : h # g => claims'[h] = claims[h]
      BY Zenon, <1>1, <1>t DEF GoroutineStep, Start, YieldWaiting, YieldHandled, Yield,
         Complete, Fail, SetState, Close, Heartbeat, HeartbeatError, Stall, SetStateError
    <2>2. CASE Close(g)
      BY Zenon, <1>t, <2>1, <2>2, OneClaimNamed DEF Close, Idle
    <2>3. CASE ~Close(g)
      <3>1. claims[g].phase # "idle" /\ claims[g] \in Claims
        BY Zenon, <1>1, <2>3, ClaimType DEF GoroutineStep, Start, YieldWaiting, YieldHandled,
           Complete, Fail, Heartbeat, HeartbeatError, Stall, SetStateError,
           BeatDue, Beating, Healthy, Holding
      <3>2. \/ claims'[g] = [claims[g] EXCEPT !.phase = "handling"]
            \/ claims'[g] = [claims[g] EXCEPT !.phase = "closing"]
            \/ claims'[g] = [claims[g] EXCEPT !.beat = HeartbeatInterval[g[1]]]
            \/ claims'[g] = [claims[g] EXCEPT !.lost = TRUE]
            \/ claims'[g] = [claims[g] EXCEPT !.healthy = FALSE]
        BY Zenon, <1>1, <1>t, <2>3 DEF GoroutineStep, Start, YieldWaiting, YieldHandled,
           Yield, Complete, Fail, SetState, Heartbeat, HeartbeatError, Stall,
           SetStateError
      <3>3. claims'[g].worker = claims[g].worker
        BY Zenon, <3>1, <3>2 DEF Claims
      <3>q. QED BY Zenon, <2>1, <3>1, <3>3, OneClaimNamed
    <2>q. QED BY Zenon, <2>2, <2>3
  <1>2. ASSUME NEW p \in Pools, PoolStep(p)
        PROVE  ClaimsNamed'
    <2>1. CASE Fetch(p)
      <3>1. PICK s \in Slots, j \in JobIDs :
              claims' = [claims EXCEPT ![<<p, s>>] = NewClaim(p, j)]
        BY Zenon, <2>1 DEF Fetch
      <3>q. QED BY <1>t, <3>1 DEF ClaimsNamed, NewClaim, Goroutines
    <2>2. CASE Crash(p)
      BY Zenon, <2>2 DEF Crash, ClaimsNamed, Idle
    <2>3. CASE ~Fetch(p) /\ ~Crash(p)
      BY Zenon, <1>2, <1>s, <2>3 DEF PoolStep, Shutdown, CancelContext, Restart, Rescue
    <2>q. QED BY Zenon, <2>1, <2>2, <2>3
  <1>3. CASE Tick
    <2>1. \A g \in Goroutines :
            \/ claims'[g] = claims[g]
            \/ Beating(g) /\ claims'[g] = [claims[g] EXCEPT !.beat = @ - 1]
      BY Zenon, <1>3 DEF Tick
    <2>2. \A g \in Goroutines : Beating(g) => claims[g] \in Claims
      BY Zenon, ClaimType DEF Beating
    <2>q. QED BY Zenon, <2>1, <2>2 DEF ClaimsNamed, Claims
  <1>4. CASE Enqueue \/ OperatorStep \/ UNCHANGED vars
    BY Zenon, <1>4, <1>s DEF Enqueue, OperatorStep, Cancel, Delete, Reschedule, Pause, Resume, vars
  <1>q. QED BY Zenon, <1>1, <1>2, <1>3, <1>4 DEF Next

\* An outcome or a yield touches the row of its own claim only, and that claim
\* is not served any more (JobSetStateIfRunning).
LEMMA SetStateLeases ==
  ASSUME TypeOK, SingleOwner, LeaseAhead, NEW h \in Goroutines, Holding(h), NEW row,
         SetState(h, row), UNCHANGED <<pools, history>>
  PROVE  LeaseAhead'
  <1> DEFINE j == claims[h].job
  <1>1. claims[h] \in Claims /\ j \in JobIDs
    BY Zenon, ClaimType DEF Holding, Claims
  <1>2. /\ claims'[h].phase = "closing"
        /\ \A g \in Goroutines : g # h => claims'[g] = claims[g]
    BY Zenon, <1>1 DEF SetState, TypeOK, Claims
  <1>3. ~Served(h)'
    BY Zenon, <1>2 DEF Served, Holding
  <1>4. /\ \A i \in JobIDs : i # j => jobs'[i] = jobs[i]
        /\ jobs'[j] = jobs[j] \/ MatchesClaim(jobs[j], claims[h])
    BY Zenon, <1>1 DEF SetState, JobSetStateIfRunning, TypeOK, StoreTypeOK
  <1>5. \A i \in JobIDs : Exists(i)' => Exists(i)
    BY Zenon, <1>4 DEF Exists, MatchesClaim
  <1>6. KeepsServing
    BY Zenon, <1>1, <1>2, <1>3, <1>5, OneClaimServes DEF history
  <1>7. ASSUME NEW g \in Goroutines, Served(g), Served(g)'
        PROVE  jobs'[claims[g].job] = jobs[claims[g].job]
    <2>1. g # h /\ Owns(g) /\ claims[g].job \in JobIDs
      BY Zenon, <1>3, <1>7, ServedType DEF LeaseAhead, Covered
    <2>2. CASE claims[g].job = j /\ MatchesClaim(jobs[j], claims[h])
      BY Zenon, <2>1, <2>2 DEF SingleOwner, Owns
    <2>q. QED BY Zenon, <1>4, <2>1, <2>2
  <1>8. KeepsServedRows
    BY Zenon, <1>7 DEF KeepsServedRows
  <1>q. QED BY Zenon, <1>6, <1>8, FrameLeases

\* A heartbeat renews its claim's lease past its next tick.  A goroutine that
\* is closing may renew the lease of its successor with the same token: pools
\* that share a WorkerID renew by the same timeout (JobHeartbeat).
LEMMA HeartbeatLeases ==
  ASSUME TypeOK, LeaseAhead, ClaimsNamed, NEW h \in Goroutines, Heartbeat(h)
  PROVE  LeaseAhead'
  <1> DEFINE j == claims[h].job
  <1>0. h[1] \in Pools /\ \A g \in Goroutines : g[1] \in Pools
    BY Zenon, GoroutineParts
  <1>1. claims[h].phase # "idle" /\ claims[h] \in Claims /\ j \in JobIDs
    BY Zenon, ClaimType DEF Heartbeat, BeatDue, Beating, Claims
  <1>2. /\ \A i \in JobIDs : i # j => jobs'[i] = jobs[i]
        /\ ~MatchesClaim(jobs[j], claims[h]) => jobs'[j] = jobs[j]
    BY Zenon DEF Heartbeat, JobHeartbeat, TypeOK, StoreTypeOK
  <1>3. ASSUME MatchesClaim(jobs[j], claims[h])
        PROVE  /\ jobs'[j].state = jobs[j].state /\ jobs'[j].worker = jobs[j].worker
               /\ jobs'[j].attempt = jobs[j].attempt
               /\ jobs'[j].lease = StuckJobTimeout[h[1]]
    <2>1. jobs[j] \in Rows
      BY Zenon, <1>1, <1>3, RowType DEF MatchesClaim, Exists, TypeOK
    <2>2. jobs'[j] = [jobs[j] EXCEPT !.lease = StuckJobTimeout[h[1]]]
      BY Zenon, <1>1, <1>3 DEF Heartbeat, JobHeartbeat, TypeOK, StoreTypeOK
    <2>q. QED BY Zenon, <2>1, <2>2 DEF Rows
  <1>4. /\ claims'[h] = IF MatchesClaim(jobs[j], claims[h])
                        THEN [claims[h] EXCEPT !.beat = HeartbeatInterval[h[1]]]
                        ELSE [claims[h] EXCEPT !.lost = TRUE]
        /\ \A g \in Goroutines : g # h => claims'[g] = claims[g]
    BY Zenon DEF Heartbeat, TypeOK
  <1>5. pools' = pools /\ replayed' = replayed
    BY Zenon DEF Heartbeat, history
  <1>6. \A i \in JobIDs : jobs'[i].state = jobs[i].state
    BY Zenon, <1>2, <1>3
  <1> SUFFICES ASSUME NEW g \in Goroutines, Served(g)'
               PROVE  Covered(g)'
    BY Zenon DEF LeaseAhead
  <1>7. Holding(g)' /\ StuckJobTimeout[g[1]] > 0 /\ HeartbeatInterval[g[1]] > 0
    BY Zenon DEF Served, Healthy, Beating
  <1>8. /\ StuckJobTimeout[g[1]] \in Int /\ HeartbeatInterval[g[1]] \in Int
        /\ HeartbeatInterval[g[1]] < StuckJobTimeout[g[1]]
    BY Zenon, <1>0, <1>7, PoolAssumption
  <1>9. CASE g = h
    <2>1. MatchesClaim(jobs[j], claims[h])
      BY Zenon, <1>1, <1>4, <1>9 DEF Served, Healthy, Beating, CtxDone, Claims
    <2>2. /\ claims'[h].job = j /\ claims'[h].worker = claims[h].worker
          /\ claims'[h].attempt = claims[h].attempt
          /\ claims'[h].beat = HeartbeatInterval[h[1]]
      BY Zenon, <1>1, <1>4, <2>1 DEF Claims
    <2>3. Owns(h)'
      BY Zenon, <1>3, <1>7, <1>9, <2>1, <2>2 DEF Owns, MatchesClaim
    <2>q. QED BY <1>3, <1>7, <1>8, <1>9, <2>1, <2>2, <2>3 DEF Covered
  <1>10. CASE g # h
    <2>1. claims'[g] = claims[g]
      BY Zenon, <1>4, <1>10
    <2>2. Holding(g) /\ claims[g].phase # "idle"
      BY Zenon, <1>7, <2>1 DEF Holding
    <2>3. claims[g].job \in JobIDs
      BY Zenon, <2>2, ClaimType DEF Claims
    <2>4. Served(g) /\ Covered(g)
      BY Zenon, <1>5, <1>6, <2>1, <2>3
      DEF Served, Holding, Healthy, Beating, CtxDone, Exists, LeaseAhead
    <2>5. CASE claims[g].job = j /\ MatchesClaim(jobs[j], claims[h])
      <3>1. WorkerIDOf[g[1]] = WorkerIDOf[h[1]]
        BY Zenon, <1>1, <2>2, <2>4, <2>5 DEF Covered, Owns, MatchesClaim, ClaimsNamed
      <3>2. StuckJobTimeout[h[1]] = StuckJobTimeout[g[1]]
        BY Zenon, <1>0, <3>1, PoolAssumption
      <3>3. Owns(g)'
        BY Zenon, <1>3, <1>7, <2>1, <2>4, <2>5 DEF Covered, Owns, MatchesClaim
      <3>q. QED BY <1>3, <1>8, <2>1, <2>4, <2>5, <3>2, <3>3 DEF Covered
    <2>6. CASE ~(claims[g].job = j /\ MatchesClaim(jobs[j], claims[h]))
      <3>1. jobs'[claims[g].job] = jobs[claims[g].job]
        BY Zenon, <1>2, <2>3, <2>6
      <3>q. QED BY Zenon, <1>7, <2>1, <2>4, <3>1 DEF Covered, Owns
    <2>q. QED BY Zenon, <2>5, <2>6
  <1>q. QED BY Zenon, <1>9, <1>10

\* The steps of a dispatched goroutine keep the leases ahead (processRow,
\* startHeartbeat).
LEMMA GoroutineStepLeases ==
  ASSUME TypeOK, SingleOwner, LeaseAhead, ClaimsNamed,
         NEW g \in Goroutines, GoroutineStep(g)
  PROVE  LeaseAhead'
  <1>t. claims \in [Goroutines -> Claims \cup {Idle}]
    BY Zenon DEF TypeOK
  <1>r. ASSUME jobs' = jobs
        PROVE  KeepsServedRows /\ \A j \in JobIDs : Exists(j)' => Exists(j)
    BY Zenon, <1>r DEF KeepsServedRows, Exists
  <1>1. CASE Start(g)
    <2> DEFINE j == claims[g].job
    <2>1. claims[g] \in Claims /\ Holding(g) /\ j \in JobIDs
      BY Zenon, <1>1, ClaimType DEF Start, Holding, Claims
    <2>2. /\ claims'[g] = [claims[g] EXCEPT !.phase = "handling"]
          /\ \A h \in Goroutines : h # g => claims'[h] = claims[h]
      BY Zenon, <1>1, <1>t DEF Start
    <2>3. /\ claims'[g].job = j /\ claims'[g].worker = claims[g].worker
          /\ claims'[g].attempt = claims[g].attempt /\ claims'[g].beat = claims[g].beat
          /\ claims'[g].healthy = claims[g].healthy /\ claims'[g].lost = claims[g].lost
      BY Zenon, <2>1, <2>2 DEF Claims
    <2>4. ASSUME NEW i \in JobIDs
          PROVE  /\ jobs'[i].state = jobs[i].state
                 /\ Exists(i) => /\ jobs'[i].worker = jobs[i].worker
                                 /\ jobs'[i].attempt = jobs[i].attempt
                                 /\ jobs'[i].lease = jobs[i].lease
      <3>1. CASE i = j /\ MatchesClaim(jobs[j], claims[g])
        <4>1. jobs[j] \in Rows
          BY Zenon, <2>1, <3>1, RowType DEF MatchesClaim, Exists, TypeOK
        <4>2. jobs'[j] = [jobs[j] EXCEPT !.started = TRUE]
          BY Zenon, <1>1, <2>1, <3>1 DEF Start, JobMarkStarted, TypeOK, StoreTypeOK
        <4>q. QED BY Zenon, <3>1, <4>1, <4>2 DEF Rows
      <3>2. CASE ~(i = j /\ MatchesClaim(jobs[j], claims[g]))
        BY Zenon, <1>1, <3>2 DEF Start, JobMarkStarted, TypeOK, StoreTypeOK
      <3>q. QED BY Zenon, <3>1, <3>2
    <2>5. pools' = pools /\ replayed' = replayed
      BY Zenon, <1>1 DEF Start, history
    <2>6. Served(g)' => claims'[g].healthy /\ ~claims'[g].lost
      BY Zenon DEF Served, Healthy, Beating, CtxDone
    <2>7. \A i \in JobIDs : Exists(i)' => Exists(i)
      BY Zenon, <2>4 DEF Exists
    <2>8. KeepsServing
      BY Zenon, <2>1, <2>2, <2>3, <2>5, <2>6, <2>7, OneClaimServes
    <2>9. KeepsServedRows
      BY Zenon, <2>4, ServedType DEF KeepsServedRows, Served
    <2>q. QED BY Zenon, <2>8, <2>9, FrameLeases
  <1>2. CASE YieldWaiting(g) \/ YieldHandled(g)
    BY Zenon, <1>2, SetStateLeases DEF YieldWaiting, YieldHandled, Yield, Holding
  <1>3. CASE Complete(g)
    BY Zenon, <1>3, SetStateLeases DEF Complete, Holding
  <1>4. CASE Fail(g)
    <2>1. PICK noRetry \in BOOLEAN, delay \in RunDelays :
            SetState(g, Settled(jobs[claims[g].job],
                                FailureState(claims[g], noRetry), TRUE, delay))
      BY Zenon, <1>4 DEF Fail
    <2>q. QED BY Zenon, <1>4, <2>1, SetStateLeases DEF Fail, Holding
  <1>5. CASE Heartbeat(g)
    BY Zenon, <1>5, HeartbeatLeases
  <1>6. CASE Close(g) \/ HeartbeatError(g) \/ Stall(g) \/ SetStateError(g)
    <2>1. claims[g].phase # "idle" /\ claims[g] \in Claims
      BY Zenon, <1>6, ClaimType DEF Close, HeartbeatError, BeatDue, Beating, Stall, Healthy,
                             SetStateError, Holding
    <2>2. /\ \A h \in Goroutines : h # g => claims'[h] = claims[h]
          /\ \/ claims'[g] = Idle
             \/ claims'[g] = [claims[g] EXCEPT !.healthy = FALSE]
             \/ claims'[g] = [claims[g] EXCEPT !.phase = "closing"]
             \/ /\ ~claims[g].healthy
                /\ claims'[g] = [claims[g] EXCEPT !.beat = HeartbeatInterval[g[1]]]
          /\ jobs' = jobs /\ pools' = pools /\ replayed' = replayed
      BY Zenon, <1>6, <1>t DEF Close, HeartbeatError, Stall, SetStateError, history
    <2>3. ~Served(g)'
      BY <2>1, <2>2 DEF Served, Holding, Healthy, Idle, Claims
    <2>4. KeepsServing
      BY Zenon, <1>r, <2>1, <2>2, <2>3, OneClaimServes
    <2>q. QED BY Zenon, <1>r, <2>2, <2>4, FrameLeases
  <1>q. QED BY Zenon, <1>1, <1>2, <1>3, <1>4, <1>5, <1>6 DEF GoroutineStep

\* A claim starts with a lease that outlives its first heartbeat; the rows of
\* other served claims are running and not fetched (JobFetchBatch).
LEMMA FetchLeases ==
  ASSUME TypeOK, LeaseAhead, NEW p \in Pools, Fetch(p)
  PROVE  LeaseAhead'
  <1>1. PICK s \in Slots, q \in Queues, j \in JobIDs :
          /\ claims[<<p, s>>] = Idle
          /\ JobFetch(q, j, WorkerIDOf[p], StuckJobTimeout[p])
          /\ claims' = [claims EXCEPT ![<<p, s>>] = NewClaim(p, j)]
    BY Zenon DEF Fetch
  <1> DEFINE f == <<p, s>>
  <1>2. f \in Goroutines /\ f[1] = p
    BY Zenon DEF Goroutines
  <1>3. jobs[j] \in Rows /\ jobs[j].state # "running"
    BY Zenon, <1>1, RowType DEF JobFetch, Due, Exists, TypeOK
  <1>4. /\ claims'[f] = NewClaim(p, j)
        /\ \A g \in Goroutines : g # f => claims'[g] = claims[g]
    BY Zenon, <1>1, <1>2 DEF TypeOK
  <1>5. pools' = pools /\ replayed' = replayed
    BY Zenon DEF Fetch, history
  <1>6. ASSUME NEW i \in JobIDs
        PROVE  /\ Exists(i)' => Exists(i)
               /\ jobs[i].state = "running" => jobs'[i] = jobs[i]
    BY Zenon, <1>1, <1>3 DEF JobFetch, Due, Exists
  <1> SUFFICES ASSUME NEW g \in Goroutines, Served(g)'
               PROVE  Covered(g)'
    BY Zenon DEF LeaseAhead
  <1>7. Holding(g)' /\ StuckJobTimeout[g[1]] > 0 /\ HeartbeatInterval[g[1]] > 0
    BY Zenon DEF Served, Healthy, Beating
  <1>8. CASE g = f
    <2>1. /\ StuckJobTimeout[p] \in Int /\ HeartbeatInterval[p] \in Int
          /\ HeartbeatInterval[p] < StuckJobTimeout[p] /\ HeartbeatInterval[p] > 0
      BY Zenon, <1>2, <1>7, <1>8, PoolAssumption
    <2>2. /\ jobs'[j].state = "running" /\ jobs'[j].worker = WorkerIDOf[p]
          /\ jobs'[j].attempt = jobs[j].attempt + 1
          /\ jobs'[j].lease = StuckJobTimeout[p]
      <3>1. jobs'[j] = Claimed(jobs[j], WorkerIDOf[p], StuckJobTimeout[p])
        BY Zenon, <1>1 DEF JobFetch
      <3>q. QED BY <1>3, <2>1, <3>1 DEF Claimed, Rows
    <2>3. /\ claims'[f].job = j /\ claims'[f].worker = WorkerIDOf[p]
          /\ claims'[f].attempt = jobs[j].attempt + 1
          /\ claims'[f].beat = HeartbeatInterval[p]
      BY <1>4 DEF NewClaim
    <2>4. Owns(f)'
      BY Zenon, <1>7, <1>8, <2>2, <2>3 DEF Owns, MatchesClaim
    <2> HIDE DEF f
    <2>q. QED BY <1>2, <1>8, <2>1, <2>2, <2>3, <2>4 DEF Covered
  <1>9. CASE g # f
    <2>1. claims'[g] = claims[g] /\ Holding(g)
      BY Zenon, <1>4, <1>7, <1>9 DEF Holding
    <2>2. claims[g].job \in JobIDs
      BY Zenon, <2>1, ClaimType DEF Holding, Claims
    <2>3. Served(g) /\ Covered(g)
      BY Zenon, <1>5, <1>6, <2>1, <2>2
      DEF Served, Holding, Healthy, Beating, CtxDone, Exists, LeaseAhead
    <2>4. jobs'[claims[g].job] = jobs[claims[g].job]
      BY Zenon, <1>6, <2>2, <2>3 DEF Covered, Owns, MatchesClaim
    <2>q. QED BY Zenon, <1>7, <2>1, <2>3, <2>4 DEF Covered, Owns
  <1>q. QED BY Zenon, <1>8, <1>9

\* The steps of a pool keep the leases ahead: a rescue finds no served row
\* among the stuck ones (JobRescueStuck), a new context finds no claim.
LEMMA PoolStepLeases ==
  ASSUME TypeOK, LeaseAhead, NEW p \in Pools, PoolStep(p)
  PROVE  LeaseAhead'
  <1>1. CASE Fetch(p)
    BY Zenon, <1>1, FetchLeases
  <1>2. CASE Shutdown(p) \/ CancelContext(p) \/ Restart(p)
    <2>1. jobs' = jobs /\ claims' = claims /\ replayed' = replayed
      BY Zenon, <1>2 DEF Shutdown, CancelContext, Restart, history
    <2>2. ASSUME NEW g \in Goroutines, Served(g)'
          PROVE  Served(g)
      <3>1. Holding(g) /\ claims[g] # Idle /\ g[1] \in Pools /\ g = <<g[1], g[2]>>
            /\ g[2] \in Slots
        BY <2>1, <2>2, GoroutineParts DEF Served, Holding, Idle
      <3>2. g[1] # p => pools'[g[1]] = pools[g[1]]
        BY Zenon, <1>2, <3>1 DEF Shutdown, CancelContext, Restart, TypeOK
      <3>3. g[1] = p => ~Restart(p)
        BY Zenon, <3>1 DEF Restart
      <3>4. pools'[g[1]].ctx # "done"
        BY Zenon, <2>2 DEF Served, Healthy, Beating, CtxDone
      <3>5. pools[g[1]].ctx # "done"
        BY <1>2, <3>1, <3>2, <3>3, <3>4 DEF Shutdown, CancelContext, TypeOK
      <3>q. QED BY Zenon, <2>1, <2>2, <3>5 DEF Served, Holding, Healthy, Beating, CtxDone, Exists
    <2>3. KeepsServing /\ KeepsServedRows
      BY Zenon, <2>1, <2>2 DEF KeepsServing, KeepsServedRows
    <2>q. QED BY Zenon, <2>3, FrameLeases
  <1>3. CASE Crash(p)
    <2>1. jobs' = jobs /\ replayed' = replayed
      BY Zenon, <1>3 DEF Crash, history
    <2>2. ASSUME NEW g \in Goroutines, Served(g)'
          PROVE  claims'[g] = claims[g] /\ Served(g)
      <3>1. g[1] # p
        BY Zenon, <1>3, <2>2 DEF Crash, Served, Holding, Idle
      <3>2. claims'[g] = claims[g]
        BY Zenon, <1>3, <3>1 DEF Crash
      <3>3. pools'[g[1]] = pools[g[1]]
        BY Zenon, <1>3, <3>1, GoroutineParts DEF Crash, TypeOK
      <3>q. QED BY Zenon, <2>1, <2>2, <3>2, <3>3
              DEF Served, Holding, Healthy, Beating, CtxDone, Exists
    <2>3. KeepsServing /\ KeepsServedRows
      BY Zenon, <2>1, <2>2 DEF KeepsServing, KeepsServedRows
    <2>q. QED BY Zenon, <2>3, FrameLeases
  <1>4. ASSUME NEW q \in Queues, Rescue(p, q)
        PROVE  LeaseAhead'
    <2>1. \A j \in JobIDs :
            jobs'[j] = IF Stuck(jobs[j], StuckJobTimeout[p]) /\ jobs[j].queue = q
                       THEN Rescued(jobs[j]) ELSE jobs[j]
      BY Zenon, <1>4 DEF Rescue, JobRescueStuck
    <2>2. claims' = claims /\ pools' = pools /\ replayed' = replayed
      BY Zenon, <1>4 DEF Rescue
    <2>3. \A j \in JobIDs : Exists(j)' => Exists(j)
      BY Zenon, <2>1 DEF Exists, Stuck
    <2>4. KeepsServing
      BY Zenon, <2>2, <2>3, ClaimType, SameClaimsServe DEF Claims
    <2>5. ASSUME NEW g \in Goroutines, Served(g)
          PROVE  jobs'[claims[g].job] = jobs[claims[g].job]
      <3>1. claims[g].job \in JobIDs
        BY Zenon, <2>5, ServedType
      <3>2. jobs[claims[g].job].lease \in Int /\ jobs[claims[g].job].lease > 0
        BY <2>5 DEF LeaseAhead, Covered
      <3>3. ~Stuck(jobs[claims[g].job], StuckJobTimeout[p])
        BY <3>2, StoreAssumption DEF Stuck
      <3>q. QED BY Zenon, <2>1, <3>1, <3>3
    <2>6. KeepsServedRows
      BY Zenon, <2>5 DEF KeepsServedRows
    <2>q. QED BY Zenon, <2>4, <2>6, FrameLeases
  <1>q. QED BY Zenon, <1>1, <1>2, <1>3, <1>4 DEF PoolStep

\* Enqueueing uses a new id; operators cancel only jobs that are not running
\* and mark the ones they reschedule (JobInsertMany, JobCancel,
\* JobReschedule).
LEMMA ClientStepLeases ==
  ASSUME TypeOK, DistinctTokens, LeaseAhead, Enqueue \/ OperatorStep
  PROVE  LeaseAhead'
  <1>c. \A g \in Goroutines : claims[g].phase # "idle" =>
          claims[g].job \in JobIDs /\ claims[g].job <= seq
    BY Zenon, ClaimType DEF Claims, DistinctTokens
  <1>1. CASE Enqueue
    <2>1. /\ claims' = claims /\ pools' = pools /\ replayed' = replayed
          /\ \A j \in JobIDs : j <= seq => jobs'[j] = jobs[j]
      BY <1>1 DEF Enqueue, JobInsert, TypeOK, StoreTypeOK, history, JobIDs
    <2>2. KeepsServing
      BY Zenon, <1>c, <2>1, SameClaimsServe DEF Exists
    <2>3. KeepsServedRows
      BY Zenon, <1>c, <2>1, ServedType DEF KeepsServedRows
    <2>q. QED BY Zenon, <2>2, <2>3, FrameLeases
  <1>2. ASSUME NEW j \in JobIDs, Cancel(j) \/ Delete(j) \/ Reschedule(j)
        PROVE  LeaseAhead'
    <2>1. /\ claims' = claims /\ pools' = pools /\ replayed \subseteq replayed'
          /\ Exists(j) /\ \A i \in JobIDs : i # j => jobs'[i] = jobs[i]
      BY Zenon, <1>2 DEF Cancel, JobCancel, Delete, JobDelete, Reschedule, JobReschedule,
                  Exists, TypeOK, StoreTypeOK, history
    <2>2. KeepsServing
      BY Zenon, <1>c, <2>1, SameClaimsServe DEF Exists
    <2>3. ASSUME NEW g \in Goroutines, Served(g), Served(g)'
          PROVE  claims[g].job # j
      <3>1. CASE Cancel(j)
        BY Zenon, <2>3, <3>1 DEF LeaseAhead, Covered, Owns, MatchesClaim, Cancel, JobCancel
      <3>2. CASE Delete(j)
        <4>1. ~Exists(j)'
          BY Zenon, <3>2 DEF Delete, JobDelete, TypeOK, StoreTypeOK, Exists, NoRow
        <4>q. QED BY Zenon, <2>1, <2>3, <4>1 DEF Served, Exists
      <3>3. CASE Reschedule(j)
        BY Zenon, <2>1, <2>3, <3>3 DEF Reschedule, Served
      <3>q. QED BY Zenon, <1>2, <3>1, <3>2, <3>3
    <2>4. KeepsServedRows
      BY Zenon, <2>1, <2>3, ServedType DEF KeepsServedRows
    <2>q. QED BY Zenon, <2>2, <2>4, FrameLeases
  <1>3. ASSUME NEW q \in Queues, Pause(q) \/ Resume(q)
        PROVE  LeaseAhead'
    <2>1. claims' = claims /\ pools' = pools /\ replayed' = replayed /\ jobs' = jobs
      BY Zenon, <1>3 DEF Pause, QueuePause, Resume, QueueResume, history
    <2>q. QED BY <2>1 DEF LeaseAhead, Served, Covered, Holding, Healthy, Beating,
                          CtxDone, Exists, Owns
  <1>q. QED BY Zenon, <1>1, <1>2, <1>3 DEF OperatorStep

\* Time passes for the lease and for the heartbeat alike, and does not pass
\* while a healthy heartbeat is due (startHeartbeat).
LEMMA TickLeases ==
  ASSUME TypeOK, LeaseAhead, Tick
  PROVE  LeaseAhead'
  <1> SUFFICES ASSUME NEW g \in Goroutines, Served(g)'
               PROVE  Covered(g)'
    BY Zenon DEF LeaseAhead
  <1> DEFINE j == claims[g].job
  <1>1. /\ claims'[g] = IF Beating(g) /\ claims[g].beat > 0
                        THEN [claims[g] EXCEPT !.beat = @ - 1] ELSE claims[g]
        /\ pools' = pools /\ replayed' = replayed
        /\ ~(Healthy(g) /\ BeatDue(g))
    BY Zenon DEF Tick, history
  <1>2. claims'[g].phase # "idle" /\ claims[g].phase # "idle" /\ claims[g] \in Claims
    BY Zenon, <1>1, ClaimType DEF Served, Holding, Beating
  <1>3. /\ claims'[g].phase = claims[g].phase /\ claims'[g].job = j
        /\ claims'[g].worker = claims[g].worker /\ claims'[g].lost = claims[g].lost
        /\ claims'[g].attempt = claims[g].attempt
        /\ claims'[g].healthy = claims[g].healthy
    BY Zenon, <1>1, <1>2 DEF Claims
  <1>4. j \in JobIDs
    BY Zenon, <1>2 DEF Claims
  <1>5. jobs'[j] = Aged(jobs[j])
    BY Zenon, <1>4 DEF Tick, Elapse
  <1>6. Exists(j)
    BY Zenon, <1>3, <1>5 DEF Served, Exists, Aged
  <1>7. Healthy(g)
    BY Zenon, <1>1, <1>3 DEF Served, Healthy, Beating, CtxDone
  <1>8. Served(g) /\ Covered(g)
    BY Zenon, <1>1, <1>3, <1>6, <1>7 DEF Served, Holding, LeaseAhead
  <1>9. claims[g].beat > 0 /\ Beating(g)
    BY <1>1, <1>7, <1>8 DEF BeatDue, Healthy, Covered
  <1>10. claims'[g].beat = claims[g].beat - 1
    BY Zenon, <1>1, <1>2, <1>9 DEF Claims
  <1>11. jobs[j] \in Rows
    BY Zenon, <1>8, ServedType
  <1>12. /\ jobs'[j].state = jobs[j].state /\ jobs'[j].worker = jobs[j].worker
         /\ jobs'[j].attempt = jobs[j].attempt
         /\ jobs'[j].lease = Earlier(jobs[j].lease)
    BY <1>5, <1>6, <1>11 DEF Aged, Rows, Exists
  <1>13. Earlier(jobs[j].lease) = jobs[j].lease - 1
    BY <1>8, <1>9, StoreAssumption DEF Covered, Earlier
  <1>14. Owns(g)'
    BY Zenon, <1>3, <1>8, <1>12 DEF Covered, Owns, Holding, MatchesClaim
  <1>15. HeartbeatInterval[g[1]] \in Int
    BY Zenon, GoroutineParts, PoolAssumption
  <1>q. QED BY <1>3, <1>8, <1>9, <1>10, <1>12, <1>13, <1>14, <1>15 DEF Covered

\* A claim whose heartbeats reach the store is never rescued away, for every
\* number of jobs, pools and slots and every choice of timeouts and intervals
\* that newWorkerPool accepts: its lease always ends after its next heartbeat.
THEOREM HealthyKept == Spec => []HealthyClaimKept
  <1>1. Init => LeaseAhead /\ ClaimsNamed
    BY DEF Init, LeaseAhead, ClaimsNamed, Served, Holding, Idle
  <1>2. ASSUME TypeOK, DistinctTokens, SingleOwner, LeaseAhead, ClaimsNamed, [Next]_vars
        PROVE  LeaseAhead' /\ ClaimsNamed'
    <2>1. CASE UNCHANGED vars
      <3>1. jobs' = jobs /\ claims' = claims /\ pools' = pools /\ replayed' = replayed
        BY Zenon, <2>1 DEF vars
      <3>2. LeaseAhead'
        BY Zenon, <1>2, <3>1 DEF LeaseAhead, Served, Covered, Holding, Healthy, Beating,
                          CtxDone, Exists, Owns
      <3>q. QED BY Zenon, <1>2, <3>2, NamedStep
    <2>2. LeaseAhead'
      BY Zenon, <1>2, <2>1, GoroutineStepLeases, PoolStepLeases, ClientStepLeases, TickLeases
      DEF Next
    <2>q. QED BY Zenon, <1>2, <2>2, NamedStep
  <1>3. LeaseAhead => HealthyClaimKept
    BY Zenon DEF LeaseAhead, HealthyClaimKept, Served, Covered
  <1>q. QED BY <1>1, <1>2, <1>3, TypeCorrect, TokensDistinct, Fencing, PTL DEF Spec

-----------------------------------------------------------------------------
(* The refinement of JobOwnership: owners, and what a step leaves alone.   *)

OwnsJob(g, j) == Owns(g) /\ claims[g].job = j

\* OwnerOf names the goroutine that owns the job, if there is one.
OwnersKnown ==
  \A j \in JobIDs :
    /\ \A g \in Goroutines : OwnsJob(g, j) => OwnerOf(j) = g
    /\ OwnerOf(j) # NoGoroutine => OwnerOf(j) \in Goroutines /\ OwnsJob(OwnerOf(j), j)

\* With fencing the owner of a job is a function of the state
\* (MatchesClaim).
LEMMA OwnerIs == SingleOwner => OwnersKnown
  <1> SUFFICES ASSUME SingleOwner, NEW j \in JobIDs
               PROVE  /\ \A g \in Goroutines : OwnsJob(g, j) => OwnerOf(j) = g
                      /\ OwnerOf(j) # NoGoroutine =>
                           OwnerOf(j) \in Goroutines /\ OwnsJob(OwnerOf(j), j)
    BY Zenon DEF OwnersKnown
  <1>1. CASE \E g \in Goroutines : OwnsJob(g, j)
    <2>1. OwnerOf(j) \in Goroutines /\ OwnsJob(OwnerOf(j), j)
      BY Zenon, <1>1 DEF OwnerOf, OwnsJob
    <2>2. \A g \in Goroutines : OwnsJob(g, j) => OwnerOf(j) = g
      BY Zenon, <2>1 DEF SingleOwner, OwnsJob
    <2>q. QED BY Zenon, <2>1, <2>2
  <1>2. CASE ~\E g \in Goroutines : OwnsJob(g, j)
    BY Zenon, <1>2 DEF OwnerOf, OwnsJob
  <1>q. QED BY Zenon, <1>1, <1>2

\* The same after a step.
LEMMA OwnerIsNext == SingleOwner' => OwnersKnown'
  BY OwnerIs, PTL

\* The state and token of a row, as far as owners can see them.
RowAlike(j) ==
  /\ Exists(j)' <=> Exists(j)
  /\ Running(j)' <=> Running(j)
  /\ Terminal(j)' <=> Terminal(j)
  /\ Exists(j) => jobs'[j].attempt = jobs[j].attempt
  /\ Running(j) => jobs'[j].worker = jobs[j].worker

ClaimAlike(g) ==
  /\ Holding(g)' <=> Holding(g)
  /\ Holding(g) => /\ claims'[g].job = claims[g].job
                   /\ claims'[g].worker = claims[g].worker
                   /\ claims'[g].attempt = claims[g].attempt

\* The abstract job does not see the step.
AbsSame(j) ==
  /\ StatusOf(j)' = StatusOf(j)
  /\ OwnerOf(j)' = OwnerOf(j)
  /\ ChargedTo(j)' = ChargedTo(j)

\* A row that keeps state and attempt keeps its abstract status and charge.
LEMMA RowSame ==
  ASSUME NEW j \in JobIDs, RowAlike(j), seq' = seq
  PROVE  StatusOf(j)' = StatusOf(j) /\ ChargedTo(j)' = ChargedTo(j)
  <1>1. StatusOf(j)' = StatusOf(j)
    BY DEF RowAlike, StatusOf
  <1>2. ChargedTo(j)' = ChargedTo(j)
    BY Zenon DEF RowAlike, ChargedTo
  <1>q. QED BY Zenon, <1>1, <1>2

\* The same goroutines own the job before and after: so does OwnerOf.
LEMMA OwnerSame ==
  ASSUME OwnersKnown, OwnersKnown', NEW j \in JobIDs,
         \A g \in Goroutines : OwnsJob(g, j)' <=> OwnsJob(g, j)
  PROVE  OwnerOf(j)' = OwnerOf(j)
  <1>1. CASE \E g \in Goroutines : OwnsJob(g, j)
    BY Zenon, <1>1 DEF OwnersKnown
  <1>2. CASE ~\E g \in Goroutines : OwnsJob(g, j)
    BY Zenon, <1>2 DEF OwnersKnown
  <1>q. QED BY Zenon, <1>1, <1>2

\* A row keeps its abstract state when its own token and the claims on it do.
LEMMA AlikeSame ==
  ASSUME OwnersKnown, OwnersKnown', NEW j \in JobIDs, seq' = seq, RowAlike(j),
         \A g \in Goroutines :
           ClaimAlike(g) \/ (~OwnsJob(g, j) /\ ~OwnsJob(g, j)')
  PROVE  AbsSame(j)
  <1>1. ASSUME NEW g \in Goroutines, ClaimAlike(g)
        PROVE  OwnsJob(g, j)' <=> OwnsJob(g, j)
    BY Zenon, <1>1 DEF ClaimAlike, RowAlike, OwnsJob, Owns, MatchesClaim, Running, Exists
  <1>2. \A g \in Goroutines : OwnsJob(g, j)' <=> OwnsJob(g, j)
    BY Zenon, <1>1
  <1>q. QED BY Zenon, <1>2, RowSame, OwnerSame DEF AbsSame

\* A step that leaves every job alone is a stutter of JobOwnership.
LEMMA Stutters ==
  ASSUME \A j \in JobIDs : AbsSame(j)
  PROVE  UNCHANGED Ownership!absVars
  BY Zenon DEF AbsSame, Ownership!absVars

\* A step that leaves rows and claims alone is a stutter of JobOwnership.
LEMMA AlikeStutters ==
  ASSUME OwnersKnown, OwnersKnown', seq' = seq,
         \A j \in JobIDs : RowAlike(j), \A g \in Goroutines : ClaimAlike(g)
  PROVE  UNCHANGED Ownership!absVars
  BY Zenon, AlikeSame, Stutters

\* A step that changes one job is the step of JobOwnership that changes it so
\* (Settle and GiveBack of JobSetStateIfRunning, Acquire of JobFetchBatch).
LEMMA OneJobStep ==
  ASSUME NEW j \in JobIDs, \A i \in JobIDs : i # j => AbsSame(i)
  PROVE  /\ /\ StatusOf(j) = "absent" /\ StatusOf(j)' = "queued"
            /\ OwnerOf(j)' = OwnerOf(j) /\ ChargedTo(j)' = ChargedTo(j)
            => Ownership!Add(j)
         /\ \A o : /\ StatusOf(j) = "queued" /\ StatusOf(j)' = "held"
                   /\ OwnerOf(j)' = o /\ ChargedTo(j)' = ChargedTo(j)
                   => Ownership!Acquire(j, o)
         /\ /\ OwnerOf(j) \in Goroutines /\ OwnerOf(j)' = NoGoroutine
            /\ StatusOf(j)' \in {"done", "queued"} /\ ChargedTo(j)' = ChargedTo(j) + 1
            => Ownership!Settle(j)
         /\ /\ OwnerOf(j) \in Goroutines /\ OwnerOf(j)' = NoGoroutine
            /\ StatusOf(j)' = "queued" /\ ChargedTo(j)' = ChargedTo(j)
            => Ownership!GiveBack(j)
         /\ /\ StatusOf(j) = "queued" /\ StatusOf(j)' = "done"
            /\ OwnerOf(j)' = OwnerOf(j) /\ ChargedTo(j)' = ChargedTo(j)
            => Ownership!Withdraw(j)
         /\ /\ StatusOf(j) = "done" /\ StatusOf(j)' = "queued"
            /\ OwnerOf(j)' = OwnerOf(j) /\ ChargedTo(j)' = ChargedTo(j)
            => Ownership!Reopen(j)
         /\ /\ StatusOf(j) \in {"queued", "held", "done"} /\ StatusOf(j)' = "deleted"
            /\ OwnerOf(j)' = NoGoroutine /\ ChargedTo(j)' = 0
            => Ownership!Remove(j)
  BY Zenon DEF AbsSame, Ownership!Add, Ownership!Acquire, Ownership!Settle,
         Ownership!GiveBack, Ownership!Withdraw, Ownership!Reopen, Ownership!Remove

-----------------------------------------------------------------------------
(* Every step of ClaimProtocol is a step or a stutter of JobOwnership.     *)

AbsStep == Ownership!AbsNext \/ UNCHANGED Ownership!absVars

\* Nothing that a row shows its owners has changed.
LEMMA SameRowAlike ==
  ASSUME NEW j \in JobIDs,
         \/ jobs'[j] = jobs[j]
         \/ /\ jobs'[j].state = jobs[j].state
            /\ jobs'[j].attempt = jobs[j].attempt
            /\ jobs'[j].worker = jobs[j].worker
  PROVE  RowAlike(j)
  BY Zenon DEF RowAlike, Exists, Running, Terminal

\* A goroutine whose phase does not leave or enter the held ones keeps the
\* claim it has.
LEMMA SameClaimAlike ==
  ASSUME NEW g \in Goroutines,
         \/ claims'[g] = claims[g]
         \/ ~Holding(g) /\ ~Holding(g)'
         \/ /\ Holding(g)' <=> Holding(g)
            /\ claims'[g].job = claims[g].job
            /\ claims'[g].worker = claims[g].worker
            /\ claims'[g].attempt = claims[g].attempt
  PROVE  ClaimAlike(g)
  BY Zenon DEF ClaimAlike, Holding

\* Inserting a job adds it (JobInsertMany).
LEMMA EnqueueMaps ==
  ASSUME TypeOK, DistinctTokens, OwnersKnown, OwnersKnown', Enqueue
  PROVE  AbsStep
  <1>1. PICK c \in InsertChoices :
          JobInsert(c.queue, c.priority, c.runAt, c.maxRetry, c.uniqueKey)
    BY Zenon DEF Enqueue
  <1>0. PICK n \in JobIDs : n = seq + 1
    BY <1>1, StoreAssumption DEF JobInsert, TypeOK, StoreTypeOK, JobIDs
  <1>2. /\ seq \in Int /\ seq' = n /\ n = seq + 1 /\ claims' = claims
        /\ \A i \in JobIDs : i # n => jobs'[i] = jobs[i]
        /\ jobs'[n] = NewRow(c.queue, c.priority, c.runAt, c.maxRetry, c.uniqueKey)
    BY <1>0, <1>1 DEF JobInsert, Enqueue, TypeOK, StoreTypeOK
  <1>3. /\ jobs'[n].state \in {"available", "scheduled"} /\ jobs'[n].attempt = 0
        /\ ~Exists(n)
    BY <1>2 DEF NewRow, DistinctTokens
  <1>4. /\ StatusOf(n) = "absent" /\ StatusOf(n)' = "queued"
        /\ ChargedTo(n) = 0 /\ ChargedTo(n)' = 0
    <2>1. /\ Exists(n)' /\ ~Running(n)' /\ ~Terminal(n)' /\ n > seq
      BY <1>2, <1>3 DEF Exists, Running, Terminal, TerminalStates
    <2>0. ~Running(n) /\ ~Terminal(n)
      BY Zenon, <1>3 DEF Exists, Running, Terminal, TerminalStates
    <2>2. StatusOf(n) = "absent"
      BY Zenon, <1>3, <2>0, <2>1 DEF StatusOf
    <2>3. StatusOf(n)' = "queued"
      BY Zenon, <2>1 DEF StatusOf
    <2>4. ChargedTo(n) = 0 /\ ChargedTo(n)' = 0
      BY Zenon, <1>3, <2>1 DEF ChargedTo
    <2>q. QED BY Zenon, <2>2, <2>3, <2>4
  <1>5. ASSUME NEW g \in Goroutines, NEW i \in JobIDs
        PROVE  OwnsJob(g, i)' <=> OwnsJob(g, i)
    <2>1. CASE i = n
      BY Zenon, <1>2, <1>3, <2>1 DEF OwnsJob, Owns, MatchesClaim, Exists
    <2>2. CASE i # n
      BY Zenon, <1>2, <2>2 DEF OwnsJob, Owns, Holding, MatchesClaim
    <2>q. QED BY Zenon, <2>1, <2>2
  <1>6. \A i \in JobIDs : OwnerOf(i)' = OwnerOf(i)
    BY Zenon, <1>5, OwnerSame
  <1>7. ASSUME NEW i \in JobIDs, i # n
        PROVE  AbsSame(i)
    <2>1. jobs'[i] = jobs[i] /\ (i > seq' <=> i > seq)
      BY <1>2, <1>7 DEF JobIDs
    <2>q. QED BY Zenon, <1>6, <2>1 DEF AbsSame, StatusOf, ChargedTo, Exists, Running, Terminal
  <1>8. Ownership!Add(n)
    BY Zenon, <1>2, <1>4, <1>6, <1>7, OneJobStep
  <1>q. QED BY Zenon, <1>2, <1>8 DEF AbsStep, Ownership!AbsNext

\* A claim acquires its job; promoted jobs stay queued (JobFetchBatch).
LEMMA FetchMaps ==
  ASSUME TypeOK, OwnersKnown, OwnersKnown', NEW p \in Pools, Fetch(p)
  PROVE  AbsStep
  <1>1. PICK s \in Slots, q \in Queues, j \in JobIDs :
          /\ claims[<<p, s>>] = Idle
          /\ JobFetch(q, j, WorkerIDOf[p], StuckJobTimeout[p])
          /\ claims' = [claims EXCEPT ![<<p, s>>] = NewClaim(p, j)]
    BY Zenon DEF Fetch
  <1> DEFINE f == <<p, s>>
  <1>2. f \in Goroutines
    BY Zenon DEF Goroutines
  <1>3. /\ jobs[j] \in Rows /\ jobs[j].state \in {"available", "scheduled"}
        /\ jobs[j].attempt \in Nat
    BY Zenon, <1>1, RowType DEF JobFetch, Due, Exists, TypeOK, Rows
  <1>4. /\ claims'[f] = NewClaim(p, j) /\ ~Holding(f) /\ seq' = seq
        /\ \A g \in Goroutines : g # f => claims'[g] = claims[g]
    BY <1>1, <1>2 DEF TypeOK, JobFetch, Holding, Idle
  <1>5. /\ jobs'[j].state = "running" /\ jobs'[j].worker = WorkerIDOf[p]
        /\ jobs'[j].attempt = jobs[j].attempt + 1
    <2>1. jobs'[j] = Claimed(jobs[j], WorkerIDOf[p], StuckJobTimeout[p])
      BY Zenon, <1>1 DEF JobFetch
    <2>q. QED BY <1>3, <2>1 DEF Claimed, Rows
  <1>6. ASSUME NEW i \in JobIDs, i # j
        PROVE  RowAlike(i)
    <2>1. CASE Due(i, q)
      <3>1. jobs[i] \in Rows /\ jobs[i].state \in {"available", "scheduled"}
        BY Zenon, <2>1, RowType DEF Due, Exists, TypeOK
      <3>2. jobs'[i] = [jobs[i] EXCEPT !.state = "available"]
        BY Zenon, <1>1, <1>6, <2>1 DEF JobFetch
      <3>3. jobs'[i].state = "available" /\ jobs'[i].attempt = jobs[i].attempt
        BY Zenon, <3>1, <3>2 DEF Rows
      <3>q. QED BY Zenon, <3>1, <3>3 DEF RowAlike, Exists, Running, Terminal, TerminalStates
    <2>2. CASE ~Due(i, q)
      BY Zenon, <1>1, <1>6, <2>2, SameRowAlike DEF JobFetch
    <2>q. QED BY Zenon, <2>1, <2>2
  <1>7. OwnsJob(f, j)'
    BY <1>4, <1>5 DEF OwnsJob, Owns, Holding, MatchesClaim, NewClaim
  <1>8. OwnerOf(j)' = f
    BY Zenon, <1>2, <1>7 DEF OwnersKnown
  <1>9. ASSUME NEW i \in JobIDs, i # j
        PROVE  AbsSame(i)
    <2>1. ~OwnsJob(f, i) /\ ~OwnsJob(f, i)'
      BY <1>4, <1>9 DEF OwnsJob, Owns, NewClaim
    <2>q. QED BY Zenon, <1>4, <1>6, <1>9, <2>1, SameClaimAlike, AlikeSame
  <1>10. StatusOf(j) = "queued" /\ StatusOf(j)' = "held"
    BY Zenon, <1>3, <1>5 DEF StatusOf, Exists, Running, Terminal, TerminalStates
  <1>11. ChargedTo(j)' = ChargedTo(j)
    BY <1>3, <1>5 DEF ChargedTo, Exists, Running
  <1>12. Ownership!Acquire(j, f)
    BY Zenon, <1>8, <1>9, <1>10, <1>11, OneJobStep
  <1>q. QED BY Zenon, <1>2, <1>12 DEF AbsStep, Ownership!AbsNext

\* A row that is not running has no owner (MatchesClaim).
LEMMA NoOwnerNext ==
  ASSUME OwnersKnown', NEW j \in JobIDs, ~Running(j)'
  PROVE  OwnerOf(j)' = NoGoroutine
  BY DEF OwnersKnown, OwnsJob, Owns, MatchesClaim, Running

\* An outcome settles the job and a yield gives it back, if the caller owns
\* it; a stale call changes nothing (JobSetStateIfRunning).
LEMMA SetStateMaps ==
  ASSUME TypeOK, OwnersKnown, OwnersKnown', NEW g \in Goroutines, Holding(g), NEW row,
         SetState(g, row),
         MatchesClaim(jobs[claims[g].job], claims[g]) =>
           \/ row.state = "available" /\ row.attempt = jobs[claims[g].job].attempt - 1
           \/ /\ row.state \in {"available", "completed", "discarded"}
              /\ row.attempt = jobs[claims[g].job].attempt
  PROVE  AbsStep
  <1>0. PICK j \in JobIDs : claims[g].job = j
    BY Zenon, ClaimType DEF Holding, Claims
  <1>1. claims[g] \in Claims
    BY Zenon, ClaimType DEF Holding
  <1>2. /\ claims'[g].phase = "closing" /\ seq' = seq
        /\ \A h \in Goroutines : h # g => claims'[h] = claims[h]
    BY Zenon, <1>1 DEF SetState, JobSetStateIfRunning, TypeOK, Claims
  <1>3. /\ \A h \in Goroutines : h # g => ClaimAlike(h)
        /\ \A i \in JobIDs : ~OwnsJob(g, i)'
    BY Zenon, <1>2, SameClaimAlike DEF OwnsJob, Owns, Holding
  <1>4. CASE ~MatchesClaim(jobs[j], claims[g])
    <2>1. jobs' = jobs /\ \A i \in JobIDs : ~OwnsJob(g, i)
      BY Zenon, <1>0, <1>4 DEF SetState, JobSetStateIfRunning, OwnsJob, Owns
    <2>2. \A i \in JobIDs : AbsSame(i)
      BY Zenon, <1>2, <1>3, <2>1, SameRowAlike, AlikeSame
    <2>q. QED BY Zenon, <2>2, Stutters DEF AbsStep
  <1>5. CASE MatchesClaim(jobs[j], claims[g])
    <2>1. /\ jobs[j] \in Rows /\ jobs[j].attempt \in Nat /\ jobs[j].state = "running"
          /\ jobs'[j] = row /\ \A i \in JobIDs : i # j => jobs'[i] = jobs[i]
      BY <1>0, <1>5, RowType
      DEF SetState, JobSetStateIfRunning, MatchesClaim, Exists, TypeOK, StoreTypeOK, Rows
    <2>2. OwnerOf(j) = g
      BY Zenon, <1>0, <1>5 DEF OwnersKnown, OwnsJob, Owns
    <2>3. ASSUME NEW i \in JobIDs, i # j
          PROVE  AbsSame(i)
      <3>1. ~OwnsJob(g, i)
        BY Zenon, <1>0, <2>3 DEF OwnsJob
      <3>q. QED BY <1>2, <1>3, <2>1, <2>3, <3>1, SameRowAlike, AlikeSame
    <2>4. /\ row.state \in {"available", "completed", "discarded"}
          /\ \/ row.state = "available" /\ row.attempt = jobs[j].attempt - 1
             \/ row.attempt = jobs[j].attempt
      BY Zenon, <1>0, <1>5
    <2>5. /\ Exists(j) /\ Exists(j)' /\ Running(j) /\ ~Running(j)'
          /\ Terminal(j)' <=> row.state # "available"
      BY Zenon, <2>1, <2>4 DEF Exists, Running, Terminal, TerminalStates
    <2>6. /\ OwnerOf(j)' = NoGoroutine
          /\ StatusOf(j)' \in {"done", "queued"}
          /\ row.state = "available" => StatusOf(j)' = "queued"
      BY Zenon, <2>5, NoOwnerNext DEF StatusOf
    <2>7. ChargedTo(j) = jobs[j].attempt - 1 /\ ChargedTo(j)' = row.attempt
      BY Zenon, <2>1, <2>5 DEF ChargedTo
    <2>8. CASE row.attempt = jobs[j].attempt
      <3>1. ChargedTo(j)' = ChargedTo(j) + 1
        BY <2>1, <2>7, <2>8
      <3>2. Ownership!Settle(j)
        BY Zenon, <2>2, <2>3, <2>6, <3>1, OneJobStep
      <3>q. QED BY Zenon, <3>2 DEF AbsStep, Ownership!AbsNext
    <2>9. CASE row.state = "available" /\ row.attempt = jobs[j].attempt - 1
      <3>1. Ownership!GiveBack(j)
        BY Zenon, <2>2, <2>3, <2>6, <2>7, <2>9, OneJobStep
      <3>q. QED BY Zenon, <3>1 DEF AbsStep, Ownership!AbsNext
    <2>q. QED BY Zenon, <2>4, <2>8, <2>9
  <1>q. QED BY Zenon, <1>4, <1>5

\* Goroutines that disappear abandon what they own (a crash, or setState
\* failing).
LEMMA Abandons ==
  ASSUME OwnersKnown, OwnersKnown', NEW G \in SUBSET Goroutines, seq' = seq, jobs' = jobs,
         \A g \in G : ~Holding(g)', \A g \in Goroutines \ G : ClaimAlike(g)
  PROVE  AbsStep
  <1> DEFINE S == {j \in JobIDs : OwnerOf(j) \in G}
  <1>1. \A j \in JobIDs : RowAlike(j)
    BY Zenon, SameRowAlike
  <1>2. ASSUME NEW g \in Goroutines, NEW j \in JobIDs
        PROVE  OwnsJob(g, j)' <=> OwnsJob(g, j) /\ g \notin G
    <2>1. CASE g \in G
      BY Zenon, <2>1 DEF OwnsJob, Owns
    <2>2. CASE g \notin G
      BY Zenon, <2>2 DEF ClaimAlike, OwnsJob, Owns, MatchesClaim
    <2>q. QED BY Zenon, <2>1, <2>2
  <1>3. ASSUME NEW j \in JobIDs
        PROVE  OwnerOf(j)' = IF j \in S THEN NoGoroutine ELSE OwnerOf(j)
    <2>1. CASE j \in S
      <3>1. \A g \in Goroutines : ~OwnsJob(g, j)'
        BY <1>2, <2>1 DEF OwnersKnown
      <3>q. QED BY Zenon, <2>1, <3>1 DEF OwnersKnown
    <2>2. CASE j \notin S
      <3>1. \A g \in Goroutines : OwnsJob(g, j)' <=> OwnsJob(g, j)
        BY <1>2, <2>2 DEF OwnersKnown
      <3>q. QED BY Zenon, <2>2, <3>1, OwnerSame
    <2>q. QED BY Zenon, <2>1, <2>2
  <1>4. \A j \in JobIDs : StatusOf(j)' = StatusOf(j) /\ ChargedTo(j)' = ChargedTo(j)
    BY Zenon, <1>1, RowSame
  <1>5. Ownership!Abandon(S)
    BY Zenon, <1>3, <1>4 DEF Ownership!Abandon
  <1>q. QED BY Zenon, <1>5 DEF AbsStep, Ownership!AbsNext

\* A running row has every field of a row (Job).
LEMMA RunningRow ==
  ASSUME TypeOK, NEW j \in JobIDs, jobs[j].state = "running"
  PROVE  jobs[j] \in Rows
  BY Zenon, RowType DEF TypeOK, Exists

\* Every step of a goroutine: the start of the handler, the heartbeat and the
\* end of the deferred calls change no ownership.
LEMMA GoroutineMaps ==
  ASSUME TypeOK, OwnersKnown, OwnersKnown', NEW g \in Goroutines, GoroutineStep(g)
  PROVE  AbsStep
  <1> DEFINE c == claims[g]
  <1>1. CASE Start(g)
    <2>0. c \in Claims /\ Holding(g) /\ c.job \in JobIDs
      BY Zenon, <1>1, ClaimType DEF Start, Holding, Claims
    <2>1. \A h \in Goroutines : ClaimAlike(h)
      BY <1>1, <2>0, SameClaimAlike DEF Start, TypeOK, Claims, Holding
    <2>2. \A j \in JobIDs : RowAlike(j)
      <3> SUFFICES ASSUME NEW j \in JobIDs PROVE RowAlike(j)
        BY Zenon
      <3>1. jobs'[j] = jobs[j] \/ (Running(j) /\ jobs'[j] = [jobs[j] EXCEPT !.started = TRUE])
        BY Zenon, <1>1, <2>0 DEF Start, JobMarkStarted, MatchesClaim, Running, TypeOK, StoreTypeOK
      <3>q. QED BY <3>1, RunningRow, SameRowAlike DEF RowAlike, Rows, Running, Exists, Terminal
    <2>3. seq' = seq
      BY Zenon, <1>1 DEF Start, JobMarkStarted
    <2>q. QED BY Zenon, <2>1, <2>2, <2>3, AlikeStutters DEF AbsStep
  <1>2. CASE YieldWaiting(g) \/ YieldHandled(g)
    <2>1. Holding(g) /\ SetState(g, Yielded(jobs[c.job])) /\ c.job \in JobIDs
      BY Zenon, <1>2, ClaimType DEF YieldWaiting, YieldHandled, Yield, Holding, Claims
    <2>2. MatchesClaim(jobs[c.job], c) =>
            Yielded(jobs[c.job]).state = "available"
              /\ Yielded(jobs[c.job]).attempt = jobs[c.job].attempt - 1
      BY <2>1, RunningRow DEF MatchesClaim, Running, Yielded, Rows
    <2>q. QED BY Zenon, <2>1, <2>2, SetStateMaps
  <1>3. CASE Complete(g) \/ Fail(g)
    <2>1. PICK st \in {"completed", "discarded", "retryable"}, f \in BOOLEAN,
               d \in RunDelays \cup {0} :
            SetState(g, Settled(jobs[c.job], st, f, d))
      BY Zenon, <1>3 DEF Complete, Fail, FailureState
    <2>2. Holding(g) /\ c.job \in JobIDs
      BY Zenon, <1>3, ClaimType DEF Complete, Fail, Holding, Claims
    <2>3. MatchesClaim(jobs[c.job], c) =>
            /\ Settled(jobs[c.job], st, f, d).state \in {"available", "completed", "discarded"}
            /\ Settled(jobs[c.job], st, f, d).attempt = jobs[c.job].attempt
      BY <2>2, RunningRow DEF MatchesClaim, Running, Settled, Rows
    <2>q. QED BY Zenon, <2>1, <2>2, <2>3, SetStateMaps
  <1>4. CASE Close(g) \/ Heartbeat(g) \/ HeartbeatError(g) \/ Stall(g)
    <2>0. c.phase # "idle" /\ c \in Claims /\ c.job \in JobIDs
      BY Zenon, <1>4, ClaimType
      DEF Close, Heartbeat, HeartbeatError, Stall, Healthy, BeatDue, Beating, Claims
    <2>1. /\ \A h \in Goroutines : h # g => claims'[h] = claims[h]
          /\ \/ c.phase = "closing" /\ claims'[g] = Idle
             \/ claims'[g] = [c EXCEPT !.beat = HeartbeatInterval[g[1]]]
             \/ claims'[g] = [c EXCEPT !.lost = TRUE]
             \/ claims'[g] = [c EXCEPT !.healthy = FALSE]
      BY Zenon, <1>4 DEF Close, Heartbeat, HeartbeatError, Stall, TypeOK
    <2>2. \A h \in Goroutines : ClaimAlike(h)
      BY <2>0, <2>1, SameClaimAlike DEF Claims, Holding, Idle
    <2>3. \A j \in JobIDs : RowAlike(j)
      <3> SUFFICES ASSUME NEW j \in JobIDs PROVE RowAlike(j)
        BY Zenon
      <3>1. jobs'[j] = jobs[j]
              \/ (Running(j) /\ jobs'[j] = [jobs[j] EXCEPT !.lease = StuckJobTimeout[g[1]]])
        BY <1>4, <2>0
        DEF Close, Heartbeat, HeartbeatError, Stall, JobHeartbeat, MatchesClaim, Running,
            TypeOK, StoreTypeOK
      <3>q. QED BY Zenon, <3>1, RunningRow, SameRowAlike DEF RowAlike, Rows, Running, Exists, Terminal
    <2>4. seq' = seq
      BY Zenon, <1>4 DEF Close, Heartbeat, HeartbeatError, Stall, JobHeartbeat
    <2>q. QED BY Zenon, <2>2, <2>3, <2>4, AlikeStutters DEF AbsStep
  <1>5. CASE SetStateError(g)
    <2>0. c \in Claims /\ claims'[g] = [c EXCEPT !.phase = "closing"]
      BY Zenon, <1>5, ClaimType DEF SetStateError, Holding, TypeOK
    <2>1. ~Holding(g)'
      BY Zenon, <2>0 DEF Holding, Claims
    <2>2. \A h \in Goroutines \ {g} : ClaimAlike(h)
      BY Zenon, <1>5, SameClaimAlike DEF SetStateError, TypeOK
    <2>3. seq' = seq /\ jobs' = jobs
      BY Zenon, <1>5 DEF SetStateError
    <2>q. QED
      <3>1. {g} \in SUBSET Goroutines
        BY Zenon
      <3>q. QED BY Zenon, <2>1, <2>2, <2>3, <3>1, Abandons
  <1>q. QED BY Zenon, <1>1, <1>2, <1>3, <1>4, <1>5 DEF GoroutineStep

\* Running rows that are queued again with their attempt are taken away from
\* whoever holds them (JobRescueStuck; JobReschedule of a running job).
LEMMA Revokes ==
  ASSUME TypeOK, OwnersKnown, OwnersKnown', NEW S \in SUBSET JobIDs,
         seq' = seq, claims' = claims,
         \A j \in S : /\ Running(j)
                      /\ jobs'[j].state \in {"available", "scheduled"}
                      /\ jobs'[j].attempt = jobs[j].attempt,
         \A j \in JobIDs \ S : RowAlike(j)
  PROVE  AbsStep
  <1>1. \A g \in Goroutines : ClaimAlike(g)
    BY Zenon, SameClaimAlike
  <1>2. ASSUME NEW j \in JobIDs \ S
        PROVE  AbsSame(j)
    BY Zenon, <1>1, <1>2, AlikeSame
  <1>3. ASSUME NEW j \in S
        PROVE  /\ StatusOf(j) = "held" /\ StatusOf(j)' = "queued"
               /\ OwnerOf(j)' = NoGoroutine
               /\ ChargedTo(j)' = ChargedTo(j) + 1
    <2>1. /\ Exists(j) /\ ~Terminal(j) /\ Exists(j)' /\ ~Running(j)' /\ ~Terminal(j)'
          /\ j \in JobIDs /\ Running(j)
      BY Zenon, <1>3 DEF Exists, Running, Terminal, TerminalStates
    <2>2. StatusOf(j) = "held" /\ StatusOf(j)' = "queued"
      BY Zenon, <2>1 DEF StatusOf
    <2>3. OwnerOf(j)' = NoGoroutine
      BY Zenon, <2>1, NoOwnerNext
    <2>4. jobs[j].attempt \in Nat
      BY Zenon, <2>1, RunningRow DEF Running, Rows
    <2>5. ChargedTo(j)' = ChargedTo(j) + 1
      BY <1>3, <2>1, <2>4 DEF ChargedTo
    <2>q. QED BY Zenon, <2>2, <2>3, <2>5
  <1>4. Ownership!Revoke(S)
    BY Zenon, <1>2, <1>3 DEF Ownership!Revoke, AbsSame
  <1>q. QED BY Zenon, <1>4 DEF AbsStep, Ownership!AbsNext

\* Every step of a pool: shutting down, cancelling and restarting change no
\* ownership, a crash abandons jobs and a rescue revokes them.
LEMMA PoolMaps ==
  ASSUME TypeOK, DistinctTokens, OwnersKnown, OwnersKnown', NEW p \in Pools, PoolStep(p)
  PROVE  AbsStep
  <1>1. CASE Fetch(p)
    BY Zenon, <1>1, FetchMaps
  <1>2. CASE Shutdown(p) \/ CancelContext(p) \/ Restart(p)
    <2>1. jobs' = jobs /\ claims' = claims /\ seq' = seq
      BY Zenon, <1>2 DEF Shutdown, CancelContext, Restart
    <2>q. QED BY Zenon, <2>1, SameRowAlike, SameClaimAlike, AlikeStutters DEF AbsStep
  <1>3. CASE Crash(p)
    <2> DEFINE G == {g \in Goroutines : g[1] = p}
    <2>1. jobs' = jobs /\ seq' = seq /\ G \in SUBSET Goroutines
      BY Zenon, <1>3 DEF Crash
    <2>2. \A g \in G : ~Holding(g)'
      BY Zenon, <1>3 DEF Crash, Holding, Idle
    <2>3. \A g \in Goroutines \ G : ClaimAlike(g)
      BY Zenon, <1>3, SameClaimAlike DEF Crash
    <2>q. QED BY Zenon, <2>1, <2>2, <2>3, Abandons
  <1>4. CASE \E q \in Queues : Rescue(p, q)
    <2>1. PICK q \in Queues : Rescue(p, q)
      BY Zenon, <1>4
    <2> DEFINE stuck(j) == Stuck(jobs[j], StuckJobTimeout[p]) /\ jobs[j].queue = q
               S == {j \in JobIDs : stuck(j)}
    <2>2. seq' = seq /\ claims' = claims /\ S \in SUBSET JobIDs
      BY Zenon, <2>1 DEF Rescue, JobRescueStuck
    <2>3. ASSUME NEW j \in S
          PROVE  /\ Running(j)
                 /\ jobs'[j].state \in {"available", "scheduled"}
                 /\ jobs'[j].attempt = jobs[j].attempt
      <3>1. jobs[j].state = "running" /\ jobs'[j] = Rescued(jobs[j])
        BY Zenon, <2>1 DEF Rescue, JobRescueStuck, Stuck
      <3>q. QED BY Zenon, <3>1, RunningRow DEF Running, Rescued, Rows
    <2>4. \A j \in JobIDs \ S : RowAlike(j)
      BY Zenon, <2>1, SameRowAlike DEF Rescue, JobRescueStuck
    <2>q. QED BY Zenon, <2>2, <2>3, <2>4, Revokes
  <1>q. QED BY Zenon, <1>1, <1>2, <1>3, <1>4 DEF PoolStep

\* A row that is not running has no owner (MatchesClaim).
LEMMA NoOwner ==
  ASSUME OwnersKnown, NEW j \in JobIDs, ~Running(j)
  PROVE  OwnerOf(j) = NoGoroutine
  BY DEF OwnersKnown, OwnsJob, Owns, MatchesClaim, Running

\* Cancelling withdraws a queued job (JobCancel).
LEMMA CancelMaps ==
  ASSUME TypeOK, OwnersKnown, OwnersKnown', NEW j \in JobIDs, JobCancel(j), claims' = claims
  PROVE  AbsStep
  <1>1. jobs[j] \in Rows /\ jobs[j].state \in {"available", "scheduled"}
    BY Zenon, RowType DEF JobCancel, TypeOK, Exists
  <1>2. /\ seq' = seq /\ \A i \in JobIDs : i # j => jobs'[i] = jobs[i]
        /\ jobs'[j].state = "cancelled" /\ jobs'[j].attempt = jobs[j].attempt
    BY <1>1 DEF JobCancel, TypeOK, StoreTypeOK, Rows
  <1>3. \A i \in JobIDs : i # j => AbsSame(i)
    BY Zenon, <1>2, SameRowAlike, SameClaimAlike, AlikeSame
  <1>4. /\ Exists(j) /\ ~Running(j) /\ ~Terminal(j) /\ Exists(j)' /\ ~Running(j)' /\ Terminal(j)'
    BY Zenon, <1>1, <1>2 DEF Exists, Running, Terminal, TerminalStates
  <1>5. StatusOf(j) = "queued" /\ StatusOf(j)' = "done"
    BY Zenon, <1>4 DEF StatusOf
  <1>6. OwnerOf(j) = NoGoroutine /\ OwnerOf(j)' = NoGoroutine /\ ChargedTo(j)' = ChargedTo(j)
    BY Zenon, <1>2, <1>4, NoOwner, NoOwnerNext DEF ChargedTo
  <1>7. Ownership!Withdraw(j)
    BY Zenon, <1>3, <1>5, <1>6, OneJobStep
  <1>q. QED BY Zenon, <1>7 DEF AbsStep, Ownership!AbsNext

\* Deleting removes a job, whoever holds it (JobDelete).
LEMMA DeleteMaps ==
  ASSUME TypeOK, DistinctTokens, OwnersKnown, OwnersKnown', NEW j \in JobIDs,
         JobDelete(j), claims' = claims
  PROVE  AbsStep
  <1>1. /\ Exists(j) /\ j <= seq /\ seq' = seq /\ jobs'[j] = NoRow
        /\ \A i \in JobIDs : i # j => jobs'[i] = jobs[i]
    BY Zenon DEF JobDelete, DistinctTokens, TypeOK, StoreTypeOK
  <1>2. \A i \in JobIDs : i # j => AbsSame(i)
    BY Zenon, <1>1, SameRowAlike, SameClaimAlike, AlikeSame
  <1>3. ~Exists(j)' /\ ~Running(j)' /\ ~Terminal(j)'
    BY <1>1 DEF Exists, Running, Terminal, TerminalStates, NoRow
  <1>4. ~(j > seq)
    BY <1>1 DEF TypeOK, StoreTypeOK, JobIDs
  <1>5. StatusOf(j)' = "deleted"
    BY Zenon, <1>1, <1>3, <1>4 DEF StatusOf
  <1>6. StatusOf(j) \in {"queued", "held", "done"}
    BY Zenon, <1>1 DEF StatusOf
  <1>7. OwnerOf(j)' = NoGoroutine /\ ChargedTo(j)' = 0
    BY Zenon, <1>3, NoOwnerNext DEF ChargedTo
  <1>8. Ownership!Remove(j)
    BY Zenon, <1>2, <1>5, <1>6, <1>7, OneJobStep
  <1>q. QED BY Zenon, <1>8 DEF AbsStep, Ownership!AbsNext

\* Rescheduling revokes a running job, reopens a finished one and leaves a
\* queued one queued (JobReschedule).
LEMMA RescheduleMaps ==
  ASSUME TypeOK, OwnersKnown, OwnersKnown', NEW j \in JobIDs, NEW d,
         JobReschedule(j, d), claims' = claims
  PROVE  AbsStep
  <1>1. jobs[j] \in Rows
    BY Zenon, RowType DEF JobReschedule, TypeOK
  <1>2. /\ seq' = seq /\ \A i \in JobIDs : i # j => jobs'[i] = jobs[i]
        /\ jobs'[j].state = "scheduled" /\ jobs'[j].attempt = jobs[j].attempt
        /\ Exists(j)
    BY Zenon, <1>1 DEF JobReschedule, TypeOK, StoreTypeOK, Rows
  <1>3. \A i \in JobIDs : i # j => RowAlike(i)
    BY Zenon, <1>2, SameRowAlike
  <1>4. Exists(j)' /\ ~Running(j)' /\ ~Terminal(j)'
    BY Zenon, <1>2 DEF Exists, Running, Terminal, TerminalStates
  <1>5. CASE Running(j)
    <2>1. {j} \in SUBSET JobIDs
      BY Zenon
    <2>2. \A i \in {j} : /\ Running(i)
                         /\ jobs'[i].state \in {"available", "scheduled"}
                         /\ jobs'[i].attempt = jobs[i].attempt
      BY Zenon, <1>2, <1>5
    <2>q. QED BY Zenon, <1>2, <1>3, <2>1, <2>2, Revokes
  <1>6. CASE ~Running(j) /\ ~Terminal(j)
    <2>1. RowAlike(j)
      BY Zenon, <1>2, <1>4, <1>6 DEF RowAlike
    <2>q. QED BY <1>2, <1>3, <2>1, SameClaimAlike, AlikeStutters DEF AbsStep
  <1>7. CASE Terminal(j) /\ ~Running(j)
    <2>1. \A i \in JobIDs : i # j => AbsSame(i)
      BY <1>2, <1>3, SameClaimAlike, AlikeSame
    <2>2. StatusOf(j) = "done" /\ StatusOf(j)' = "queued"
      BY Zenon, <1>2, <1>4, <1>7 DEF StatusOf
    <2>3. /\ OwnerOf(j) = NoGoroutine /\ OwnerOf(j)' = NoGoroutine
          /\ ChargedTo(j)' = ChargedTo(j)
      BY <1>2, <1>4, <1>7, NoOwner, NoOwnerNext DEF ChargedTo
    <2>4. Ownership!Reopen(j)
      BY Zenon, <2>1, <2>2, <2>3, OneJobStep
    <2>q. QED BY Zenon, <2>4 DEF AbsStep, Ownership!AbsNext
  <1>q. QED BY Zenon, <1>5, <1>6, <1>7

\* Time passing changes no ownership, and neither does pausing or resuming a
\* queue; the other operators are the lemmas above.
LEMMA OperatorMaps ==
  ASSUME TypeOK, DistinctTokens, OwnersKnown, OwnersKnown', OperatorStep \/ Tick
  PROVE  AbsStep
  <1>1. CASE \E j \in JobIDs : Cancel(j) \/ Delete(j) \/ Reschedule(j)
    BY Zenon, <1>1, CancelMaps, DeleteMaps, RescheduleMaps DEF Cancel, Delete, Reschedule
  <1>2. CASE \E q \in Queues : Pause(q) \/ Resume(q)
    <2>1. jobs' = jobs /\ claims' = claims /\ seq' = seq
      BY Zenon, <1>2 DEF Pause, Resume, QueuePause, QueueResume
    <2>q. QED BY Zenon, <2>1, SameRowAlike, SameClaimAlike, AlikeStutters DEF AbsStep
  <1>3. CASE Tick
    <2>1. ASSUME NEW j \in JobIDs
          PROVE  RowAlike(j)
      <3>1. jobs'[j] = Aged(jobs[j])
        BY Zenon, <1>3 DEF Tick, Elapse
      <3>2. CASE ~Exists(j)
        BY Zenon, <3>1, <3>2, SameRowAlike DEF Aged, Exists
      <3>3. CASE Exists(j)
        <4>1. jobs[j] \in Rows
          BY <3>3, RowType DEF TypeOK
        <4>2. /\ jobs'[j].state = jobs[j].state /\ jobs'[j].attempt = jobs[j].attempt
              /\ jobs'[j].worker = jobs[j].worker
          BY <3>1, <3>3, <4>1 DEF Aged, Exists, Rows
        <4>q. QED BY Zenon, <4>2 DEF RowAlike, Exists, Running, Terminal
      <3>q. QED BY Zenon, <3>2, <3>3
    <2>2. ASSUME NEW g \in Goroutines
          PROVE  ClaimAlike(g)
      <3>1. CASE claims'[g] = claims[g]
        BY Zenon, <3>1, SameClaimAlike
      <3>2. CASE claims'[g] = [claims[g] EXCEPT !.beat = @ - 1] /\ Beating(g)
        <4>1. claims[g] \in Claims
          BY Zenon, <3>2, ClaimType DEF Beating
        <4>q. QED BY Zenon, <3>2, <4>1, SameClaimAlike DEF Claims, Holding
      <3>q. QED BY Zenon, <1>3, <3>1, <3>2 DEF Tick
    <2>3. seq' = seq
      BY Zenon, <1>3 DEF Tick, Elapse
    <2>q. QED BY Zenon, <2>1, <2>2, <2>3, AlikeStutters DEF AbsStep
  <1>q. QED BY Zenon, <1>1, <1>2, <1>3 DEF OperatorStep

\* Pools and store implement JobOwnership, for any number of pools, goroutines,
\* jobs, queues and faults: an outcome is recorded by the job's only owner and
\* once, a yield costs no attempt, and rescue or rescheduling costs the attempt
\* it takes away (JobSetStateIfRunning, JobRescueStuck, JobReschedule).
THEOREM OwnershipImplemented == Spec => ImplementsOwnership
  <1>1. Init => Ownership!AbsInit
    <2> SUFFICES ASSUME Init, NEW j \in JobIDs
                 PROVE  /\ StatusOf(j) = "absent" /\ OwnerOf(j) = NoGoroutine
                        /\ ChargedTo(j) = 0
      BY Zenon DEF Ownership!AbsInit
    <2>1. ~Exists(j) /\ ~Running(j) /\ ~Terminal(j) /\ j > seq
      BY StoreAssumption
      DEF Init, StoreInit, NoRow, Exists, Running, Terminal, TerminalStates, JobIDs
    <2>2. \A g \in Goroutines : ~Owns(g)
      BY Zenon DEF Init, Idle, Owns, Holding
    <2>3. StatusOf(j) = "absent"
      BY Zenon, <2>1 DEF StatusOf
    <2>q. QED BY Zenon, <2>1, <2>2, <2>3 DEF OwnerOf, ChargedTo
  <1>2. ASSUME TypeOK, DistinctTokens, SingleOwner, SingleOwner', [Next]_vars
        PROVE  [Ownership!AbsNext]_(Ownership!absVars)
    <2>1. OwnersKnown /\ OwnersKnown'
      BY Zenon, <1>2, OwnerIs, OwnerIsNext
    <2>2. CASE UNCHANGED vars
      <3>1. jobs' = jobs /\ claims' = claims /\ seq' = seq
        BY Zenon, <2>2 DEF vars, storeVars
      <3>q. QED BY Zenon, <2>1, <3>1, SameRowAlike, SameClaimAlike, AlikeStutters
    <2>3. CASE Next
      <3>1. AbsStep
        BY <1>2, <2>1, <2>3, EnqueueMaps, GoroutineMaps, PoolMaps, OperatorMaps DEF Next
      <3>q. QED BY Zenon, <3>1 DEF AbsStep
    <2>q. QED BY Zenon, <1>2, <2>2, <2>3
  <1>q. QED BY <1>1, <1>2, TypeCorrect, TokensDistinct, Fencing, PTL
            DEF Spec, ImplementsOwnership, Ownership!AbsSpec
=============================================================================
