------------------------------ MODULE JobStore ------------------------------
(***************************************************************************)
(* The job table of a driver, as driver/memory/memory.go implements the    *)
(* driver.Executor contract.  Every operation holds the driver's mutex     *)
(* from its first to its last line, so every operation is one step.        *)
(*                                                                         *)
(* Instants are kept relative to the driver's clock: 0 is "now", a         *)
(* negative instant has passed, NoTime is a nil pointer.  Elapse moves all *)
(* of them one tick into the past.  Instants older than Horizon ticks are  *)
(* not told apart.                                                         *)
(***************************************************************************)
EXTENDS Integers

CONSTANTS
  MaxJobs,        \* bound on the number of jobs ever inserted
  Queues,         \* queue names
  WorkerIDs,      \* values of WorkerConfig.WorkerID
  NoWorker,       \* the empty WorkerID of a row nobody holds
  ActiveKeys,     \* unique keys that block while a job is not terminal (u2_)
  PermanentKeys,  \* unique keys that block until the job is deleted (uf2_)
  NoKey,          \* the empty unique key
  NoTime,         \* a nil *time.Time
  Horizon         \* age, in ticks, after which instants are not told apart

ASSUME StoreAssumption ==
  /\ MaxJobs \in Nat
  /\ Horizon \in Nat
  /\ NoWorker \notin WorkerIDs
  /\ NoTime \notin Int
  /\ ActiveKeys \cap PermanentKeys = {}
  /\ NoKey \notin ActiveKeys \cup PermanentKeys

VARIABLES
  jobs,    \* Driver.jobs: the row of every job id, NoRow when there is none
  seq,     \* Driver.seq: the last id handed out; ids are never reused
  queues   \* Driver.queues: "missing", "open" or "paused"

storeVars == <<jobs, seq, queues>>

JobIDs == 1..MaxJobs
Keys   == ActiveKeys \cup PermanentKeys
Times  == Int \cup {NoTime}

TerminalStates == {"completed", "discarded", "cancelled"}
JobStates      == {"available", "scheduled", "running"} \cup TerminalStates

\* The fields of driver.JobRow that steer the operations.  errors counts the
\* recorded AttemptErrors; started and finalized say that StartedAt and
\* FinalizedAt are set.  CreatedAt and ID order rows alike: ids are handed
\* out in creation order under the mutex.
Rows ==
  [state : JobStates, queue : Queues, priority : Int, runAt : Int,
   attempt : Nat, maxRetry : Nat, uniqueKey : Keys \cup {NoKey},
   worker : WorkerIDs \cup {NoWorker}, attemptedAt : Times, started : BOOLEAN,
   lease : Times, finalized : BOOLEAN, errors : Nat]

NoRow == [state |-> "none"]

StoreTypeOK ==
  /\ jobs \in [JobIDs -> Rows \cup {NoRow}]
  /\ seq \in 0..MaxJobs
  /\ queues \in [Queues -> {"missing", "open", "paused"}]

StoreInit ==
  /\ jobs = [j \in JobIDs |-> NoRow]
  /\ seq = 0
  /\ queues = [q \in Queues |-> "missing"]

Exists(j)   == jobs[j].state # "none"
Terminal(j) == jobs[j].state \in TerminalStates
Active(j)   == Exists(j) /\ ~Terminal(j)
Running(j)  == jobs[j].state = "running"

-----------------------------------------------------------------------------
(* JobInsertMany, for one element of its batch.                            *)

\* The jobs that make an insert with this key a UniqueSkip.
findUniqueJob(key) ==
  {j \in JobIDs : /\ Exists(j)
                  /\ jobs[j].uniqueKey = key
                  /\ key \in PermanentKeys \/ ~Terminal(j)}

NewRow(q, priority, runAt, maxRetry, key) ==
  [state       |-> IF runAt > 0 THEN "scheduled" ELSE "available",
   queue       |-> q,
   priority    |-> priority,
   runAt       |-> runAt,
   attempt     |-> 0,
   maxRetry    |-> maxRetry,
   uniqueKey   |-> key,
   worker      |-> NoWorker,
   attemptedAt |-> NoTime,
   started     |-> FALSE,
   lease       |-> NoTime,
   finalized   |-> FALSE,
   errors      |-> 0]

ensureQueue(q) == IF queues[q] = "missing" THEN "open" ELSE queues[q]

\* An insert that finds a duplicate changes nothing and is not a step.
JobInsert(q, priority, runAt, maxRetry, key) ==
  /\ seq < MaxJobs
  /\ key # NoKey => findUniqueJob(key) = {}
  /\ seq' = seq + 1
  /\ jobs' = [jobs EXCEPT ![seq + 1] = NewRow(q, priority, runAt, maxRetry, key)]
  /\ queues' = [queues EXCEPT ![q] = ensureQueue(q)]

-----------------------------------------------------------------------------
(* JobFetchBatch with Limit 1, as fetchAndDispatch calls it.               *)

Due(j, q) ==
  /\ jobs[j].state \in {"available", "scheduled"}
  /\ jobs[j].queue = q
  /\ jobs[j].runAt <= 0

\* The order of the candidates: priority, run time, then age.  Two run times
\* at the horizon may have been either way around.
Precedes(i, k) ==
  \/ jobs[i].priority > jobs[k].priority
  \/ /\ jobs[i].priority = jobs[k].priority
     /\ \/ jobs[i].runAt < jobs[k].runAt
        \/ /\ jobs[i].runAt = jobs[k].runAt
           /\ jobs[i].runAt > -Horizon
           /\ i < k

Claimed(row, worker, leaseDuration) ==
  [row EXCEPT !.state = "running",
              !.attemptedAt = 0,
              !.started = FALSE,
              !.lease = IF leaseDuration > 0 THEN leaseDuration ELSE NoTime,
              !.attempt = @ + 1,
              !.worker = worker]

\* Every due scheduled row of the queue is promoted, the first one claimed.
JobFetch(q, j, worker, leaseDuration) ==
  /\ queues[q] = "open"
  /\ Due(j, q)
  /\ \A i \in JobIDs : Due(i, q) => ~Precedes(i, j)
  /\ jobs' = [i \in JobIDs |->
       IF i = j THEN Claimed(jobs[j], worker, leaseDuration)
       ELSE IF Due(i, q) THEN [jobs[i] EXCEPT !.state = "available"]
       ELSE jobs[i]]
  /\ UNCHANGED <<seq, queues>>

-----------------------------------------------------------------------------
(* The operations a claim holder performs, fenced by WorkerID and attempt. *)

\* Mutant: the token is the worker alone.
MatchesClaimAnyAttempt(row, claim) ==
  row.state = "running" /\ row.worker = claim.worker

\* MatchesClaim, and the same test written out in JobHeartbeat and
\* JobMarkStarted: the row still runs under this worker and attempt.  The code
\* matches any attempt when the expected one is not positive; the types of
\* rows and claims say that no claim has such an attempt.
MatchesClaim(row, claim) ==
  /\ row.state = "running"
  /\ row.worker = claim.worker
  /\ row.attempt = claim.attempt

JobMarkStarted(claim) ==
  /\ jobs' = IF MatchesClaim(jobs[claim.job], claim)
             THEN [jobs EXCEPT ![claim.job].started = TRUE] ELSE jobs
  /\ UNCHANGED <<seq, queues>>

\* Mutant: the heartbeat reports success and leaves the lease alone.
JobHeartbeatWithoutRenewal(claim, leaseDuration) == UNCHANGED storeVars

JobHeartbeat(claim, leaseDuration) ==
  /\ jobs' = IF MatchesClaim(jobs[claim.job], claim)
             THEN [jobs EXCEPT ![claim.job].lease = leaseDuration] ELSE jobs
  /\ UNCHANGED <<seq, queues>>

\* Mutant: a yield costs an attempt.
YieldedKeepingAttempt(row) ==
  [row EXCEPT !.state = "available",
              !.attemptedAt = NoTime, !.lease = NoTime, !.worker = NoWorker]

\* Yield: the claim is given back and its attempt with it.
Yielded(row) ==
  [row EXCEPT !.state = "available", !.attempt = @ - 1,
              !.attemptedAt = NoTime, !.lease = NoTime, !.worker = NoWorker]

\* Mutant: "retryable" is stored instead of turned into "available".
SettledKeepingRetryable(row, state, failed, retryAt) ==
  [row EXCEPT !.state = state,
              !.errors = IF failed THEN @ + 1 ELSE @,
              !.worker = NoWorker, !.lease = NoTime]

\* A retryable job becomes available at retryAt; the other states are final.
Settled(row, state, failed, retryAt) ==
  [row EXCEPT !.state = IF state = "retryable" THEN "available" ELSE state,
              !.runAt = IF state = "retryable" THEN retryAt ELSE @,
              !.errors = IF failed THEN @ + 1 ELSE @,
              !.finalized = @ \/ state \in TerminalStates,
              !.worker = NoWorker, !.lease = NoTime]

\* A claim that no longer matches gets ErrStaleClaim and changes nothing.
JobSetStateIfRunning(claim, newRow) ==
  /\ jobs' = IF MatchesClaim(jobs[claim.job], claim)
             THEN [jobs EXCEPT ![claim.job] = newRow] ELSE jobs
  /\ UNCHANGED <<seq, queues>>

-----------------------------------------------------------------------------
(* Rescue, operators and time.                                             *)

\* Mutant: only claims without a lease are ever rescued.
StuckLegacyOnly(row, timeout) ==
  /\ row.state = "running"
  /\ row.lease = NoTime /\ row.attemptedAt # NoTime /\ row.attemptedAt <= -timeout

\* The lease has run out; a row claimed without one is judged by its age.
Stuck(row, timeout) ==
  /\ row.state = "running"
  /\ \/ row.lease # NoTime /\ row.lease <= 0
     \/ row.lease = NoTime /\ row.attemptedAt # NoTime /\ row.attemptedAt <= -timeout

Rescued(row) ==
  [row EXCEPT !.state = "available", !.attemptedAt = NoTime,
              !.lease = NoTime, !.worker = NoWorker]

JobRescueStuck(q, timeout) ==
  /\ \E j \in JobIDs : Stuck(jobs[j], timeout) /\ jobs[j].queue = q
  /\ jobs' = [j \in JobIDs |->
       IF Stuck(jobs[j], timeout) /\ jobs[j].queue = q
       THEN Rescued(jobs[j]) ELSE jobs[j]]
  /\ UNCHANGED <<seq, queues>>

\* Mutant: running and finished jobs can be cancelled too.
JobCancelAnyState(j) ==
  /\ Exists(j)
  /\ jobs' = [jobs EXCEPT ![j].state = "cancelled", ![j].finalized = TRUE]
  /\ UNCHANGED <<seq, queues>>

JobCancel(j) ==
  /\ jobs[j].state \in {"available", "scheduled"}
  /\ jobs' = [jobs EXCEPT ![j].state = "cancelled", ![j].finalized = TRUE]
  /\ UNCHANGED <<seq, queues>>

JobDelete(j) ==
  /\ Exists(j)
  /\ jobs' = [jobs EXCEPT ![j] = NoRow]
  /\ UNCHANGED <<seq, queues>>

\* In whatever state the job is: worker, lease and attempt stay as they are.
JobReschedule(j, runAt) ==
  /\ Exists(j)
  /\ jobs' = [jobs EXCEPT ![j].state = "scheduled", ![j].runAt = runAt]
  /\ UNCHANGED <<seq, queues>>

QueuePause(q) ==
  /\ queues' = [queues EXCEPT ![q] = "paused"]
  /\ UNCHANGED <<jobs, seq>>

QueueResume(q) ==
  /\ queues' = [queues EXCEPT ![q] = "open"]
  /\ UNCHANGED <<jobs, seq>>

Earlier(t) == IF t = NoTime THEN NoTime ELSE IF t > -Horizon THEN t - 1 ELSE t

Aged(row) ==
  IF row.state = "none" THEN row
  ELSE [row EXCEPT !.runAt = Earlier(@), !.attemptedAt = Earlier(@),
                   !.lease = Earlier(@)]

Elapse ==
  /\ jobs' = [j \in JobIDs |-> Aged(jobs[j])]
  /\ UNCHANGED <<seq, queues>>
=============================================================================
