----------------------------- MODULE BackendBase -----------------------------
(***************************************************************************)
(* What the drivers of driver/ have in common: the tables they keep, the   *)
(* threads that call them, and the changes of a job row the Executor       *)
(* contract asks for.  One module per driver says which of these changes   *)
(* its calls make in one step and which in several; Backends composes      *)
(* them.                                                                   *)
(*                                                                         *)
(* A call that reads a row and writes later keeps what it read in calls.   *)
(* A row, a clock and a WorkerID are the data that steer the calls; args,  *)
(* tags, errors and kinds are left out.  All jobs are of one queue and one *)
(* priority.                                                               *)
(***************************************************************************)
EXTENDS Integers, FiniteSets

CONSTANTS
  Setups,      \* configurations: driver, unique key, threads, bounds
  Workers,     \* goroutines of worker pools
  Clients,     \* goroutines that enqueue
  Lease,       \* StuckJobTimeout: the LeaseDuration of a claim
  RunDelays,   \* delays of RunAt, of an insertion or a rescheduling
  Retries,     \* delays of a retry
  MaxAttempt,  \* bound on the attempts of a job
  PoolID,      \* the WorkerID of a pool that has all the workers
  NoWorker,    \* the empty WorkerID
  NoTime       \* a missing lease_expires_at

VARIABLES
  setup,   \* the configuration of this behaviour
  now,     \* the clock of pools and clients
  db,      \* what the driver stores
  calls,   \* per thread: the call in progress
  held,    \* per worker: the claim its last fetch returned
  hist,    \* history, for the properties
  raced,   \* history: jobs that have changed under a call that had read them
  budget   \* what is left of operator calls, rescues, yields and failures

vars == <<setup, now, db, calls, held, hist, raced, budget>>

driver == setup.driver
Jobs   == 1..setup.jobs

ASSUME BackendAssumption ==
  /\ \A s \in Setups : /\ s.key \in {"none", "active", "forever"}
                       /\ s.workers \subseteq Workers /\ s.clients \subseteq Clients
                       /\ s.beats \in BOOLEAN /\ s.shared \in BOOLEAN
                       /\ s.jobs \in Nat /\ s.budget \in Nat /\ s.time \in Nat
  /\ Lease \in Nat \ {0} /\ RunDelays \subseteq Nat /\ Retries \subseteq Nat
  /\ MaxAttempt \in Nat
  /\ NoWorker \notin Workers \cup {PoolID} /\ PoolID \notin Workers
  /\ NoTime \notin Int

\* The WorkerID of w: the workers are of one pool, or each is of its own.
Id(w) == IF setup.shared THEN PoolID ELSE w

Main(w)   == <<w, "main">>
Beat(w)   == <<w, "beat">>
Caller(c) == <<c, "client">>
Rescuer   == <<NoWorker, "rescuer">>
Operator  == <<NoWorker, "operator">>

Threads == (Workers \X {"main", "beat"}) \cup (Clients \X {"client"})
           \cup {Rescuer, Operator}

NoRow   == [state |-> "none"]
NoClaim == [job |-> 0]
Idle    == [op |-> "idle", job |-> 0, row |-> NoRow]

Pending  == {"available", "scheduled"}
Terminal == {"completed", "cancelled"}

\* The delays that may pass.
Delays == {d \in RunDelays : d <= setup.time}

Row(j)    == db.jobs[j]
Exists(j) == Row(j).state # "none"
Active(j) == Row(j).state \in Pending \cup {"running"}

\* uniq is the row of the unique-key table, 0 when there is none; avail,
\* sched and run are lookup tables, as pairs of a job and an instant; paused is
\* of the queue's row, and so is its version where a driver keeps one.
Empty ==
  [jobs |-> [j \in Jobs |-> NoRow], seq |-> 0, uniq |-> 0,
   avail |-> {}, sched |-> {}, run |-> {}, paused |-> FALSE, queueVersion |-> 0]

Init ==
  /\ setup \in Setups
  /\ now = 0
  /\ db = Empty
  /\ calls = [p \in Threads |-> Idle]
  /\ held = [w \in Workers |-> NoClaim]
  /\ hist = [cancelled |-> {}, moved |-> {}, dropped |-> {}, stale |-> {},
             torn |-> {}, freed |-> FALSE]
  /\ raced = {}
  /\ budget = setup.budget

-----------------------------------------------------------------------------
(* The changes of a row.                                                   *)

\* JobInsertMany: a row that is due is available, otherwise scheduled.
NewRow(delay, at) ==
  [state |-> IF delay > 0 THEN "scheduled" ELSE "available", runAt |-> at + delay,
   attempt |-> 0, worker |-> NoWorker, lease |-> NoTime, started |-> 0,
   version |-> 0, key |-> setup.key]


Due(row) == row.state \in Pending /\ row.runAt <= now

\* JobFetchBatch: the first due row by run_at and id.
Earliest(due) ==
  {j \in due : \A i \in due : \/ Row(j).runAt < Row(i).runAt
                              \/ Row(j).runAt = Row(i).runAt /\ j <= i}

FirstDue == Earliest({j \in Jobs : Due(Row(j))})

\* Mutant: started_at of the previous attempt stays.
ClaimedAsStarted(row, w, at) ==
  [row EXCEPT !.state = "running", !.worker = Id(w), !.attempt = @ + 1, !.lease = at + Lease]

\* The claim of w, with the lease of a fetch that read the clock at instant at.
Claimed(row, w, at) ==
  [row EXCEPT !.state = "running", !.worker = Id(w), !.attempt = @ + 1,
              !.lease = at + Lease, !.started = 0]

\* Mutant: the attempt is not compared.
MatchesAnyAttempt(row, claim) ==
  row.state = "running" /\ claim.worker \in {NoWorker, row.worker}

\* MatchesClaim, the fence of outcomes: an empty WorkerID or attempt matches
\* any.
Matches(row, claim) ==
  /\ row.state = "running"
  /\ claim.worker \in {NoWorker, row.worker}
  /\ claim.attempt \in {0, row.attempt}

Renewed(row, at) == [row EXCEPT !.lease = at + Lease]

\* started_at, as the attempt it was recorded for.
Started(row) == [row EXCEPT !.started = row.attempt]

Expired(row, at) == row.state = "running" /\ row.lease # NoTime /\ row.lease <= at

Rescued(row) ==
  [row EXCEPT !.state = "available", !.worker = NoWorker, !.lease = NoTime,
              !.started = 0]

\* Some rescues leave started_at to the next claim.
RescuedAsStarted(row) == [Rescued(row) EXCEPT !.started = row.started]

\* The outcomes of a claim: a yield gives the attempt back, a retry is
\* available at its run_at, the other outcomes are final.
Outcomes == [to : {"yield", "completed"}, delay : {0}]
            \cup [to : {"retry"}, delay : Retries]

\* Mutant: a retry stays retryable, which no fetch looks for.
SettledAsRetryable(row, o, at) ==
  [row EXCEPT !.worker = NoWorker, !.lease = NoTime,
              !.state = IF o.to = "yield" THEN "available"
                        ELSE IF o.to = "retry" THEN "retryable" ELSE o.to]

Settled(row, o, at) ==
  LET free == [row EXCEPT !.worker = NoWorker, !.lease = NoTime] IN
  CASE o.to = "yield" -> [free EXCEPT !.state = "available", !.attempt = @ - 1,
                                      !.started = 0]
    [] o.to = "retry" -> [free EXCEPT !.state = "available", !.runAt = at + o.delay]
    [] OTHER          -> [free EXCEPT !.state = o.to]

Cancelled(row) == [row EXCEPT !.state = "cancelled"]

\* In whatever state the row is.
Rescheduled(row, at) == [row EXCEPT !.state = "scheduled", !.runAt = at]

\* The key column of a finished row: an active-only key (u2_) is given up, a
\* permanent one (uf2_) is not.
KeyReleased(row) == [row EXCEPT !.key = IF @ = "active" THEN "none" ELSE @]

\* The unique-key table: a call deletes the reservation of an active-only
\* key, a deletion of the job that of a permanent key too.  None compares the
\* job_id of the reservation; freed remembers that it was another job's.
Frees(permanent) == setup.key = "active" \/ (permanent /\ setup.key = "forever")

WithoutKey(tables, permanent) ==
  IF Frees(permanent) THEN [tables EXCEPT !.uniq = 0] ELSE tables

Freed(j, permanent) == hist.freed \/ (Frees(permanent) /\ db.uniq \notin {0, j})

\* The next version of a row.
Bumped(row) == [row EXCEPT !.version = @ + 1]

\* The same where versions are only compared with the one a call has read: a
\* version that no call in flight has read.
Renumbered(row) ==
  LET read == {calls[p].row.version : p \in {q \in Threads : calls[q].row # NoRow}} IN
  [row EXCEPT !.version = CHOOSE v \in 0..Cardinality(read) :
                            v \notin read /\ \A u \in 0..(v - 1) : u \in read]

Put(j, row) == [db EXCEPT !.jobs[j] = row]

-----------------------------------------------------------------------------
(* Threads and their calls.                                                *)

Spend  == budget > 0 /\ budget' = budget - 1
Pay(o) == IF o.to = "yield" THEN Spend ELSE UNCHANGED budget

Free(p) == calls[p] = Idle

\* A read whose error is taken for an empty result: what it would have found
\* does not stop the call if it fails.
StoppedUnlessReadFails(found) == IF found THEN Spend ELSE UNCHANGED budget

\* The call of p goes on at step.  It has read row; at is the instant it has
\* read the clock.
Await(p, op, step, j, row, arg, at) ==
  calls' = [calls EXCEPT ![p] =
    [op |-> op, step |-> step, job |-> j, row |-> row, arg |-> arg, at |-> at]]

\* The next step of p's call.
At(p, op, step) == ~Free(p) /\ calls[p].op = op /\ calls[p].step = step
Goto(p, step)   == calls' = [calls EXCEPT ![p].step = step]
Return(p)       == calls' = [calls EXCEPT ![p] = Idle]

\* A fetch is made for a worker without a claim, one at a time in a pool
\* (fetchMu); heartbeats go on until the outcome is stored.
MayFetch(w)  == /\ w \in setup.workers /\ Free(Main(w)) /\ held[w] = NoClaim
                /\ setup.shared => \A v \in Workers : calls[Main(v)].op # "fetch"
MaySettle(w) == Free(Main(w)) /\ held[w] # NoClaim
MayBeat(w)   == /\ setup.beats /\ Free(Beat(w))
                /\ held[w] # NoClaim /\ calls[Main(w)].op # "fetch"

\* The fetch of w returns job j with this fence.
Holding(w, j, worker, attempt) ==
  [held EXCEPT ![w] =
    [job |-> j, worker |-> worker, attempt |-> attempt, revoked |-> FALSE]]

Hold(w, j, attempt) == held' = Holding(w, j, Id(w), attempt)

Drop(w) == held' = [held EXCEPT ![w] = NoClaim]

\* An operator, or a rescue after the lease has run out, takes j away.
Revoke(j) ==
  held' = [w \in Workers |-> IF held[w].job = j
                             THEN [held[w] EXCEPT !.revoked = TRUE] ELSE held[w]]

\* The claim of w is the row's.
Owns(w) == held[w] # NoClaim /\ Matches(Row(held[w].job), held[w])

\* The fence of heartbeats and start marks compares both.
Fenced(w) == Owns(w) /\ held[w].worker # NoWorker /\ held[w].attempt # 0

\* An outcome of w is stored, or answered with ErrStaleClaim, which the pool
\* drops silently.  stale remembers an outcome stored for a claim that was
\* revoked, dropped one that was refused to a claim that was not.
Answered(w, stored) ==
  [hist EXCEPT
     !.stale   = IF stored /\ held[w].revoked THEN @ \cup {held[w].job} ELSE @,
     !.dropped = IF stored \/ held[w].revoked THEN @ ELSE @ \cup {held[w].job}]

\* The outcome of w meets any other error; the pool reports it and the job is
\* left to the rescue.
setStateFails(w) ==
  /\ MaySettle(w) /\ Spend
  /\ Drop(w)
  /\ UNCHANGED <<db, calls, hist>>

TornHere(p) == hist.torn \cup {<<calls[p].job, calls[p].op, calls[p].step>>}

\* A call ends half way: its next request fails, or its process dies.  halves
\* are the steps before which the call has written something; a call that
\* has not is as good as one that was never made.
Fail(p, halves) ==
  /\ ~Free(p) /\ <<calls[p].op, calls[p].step>> \in halves
  /\ Spend
  /\ hist' = [hist EXCEPT !.torn = TornHere(p)]
  /\ held' = [w \in Workers |-> IF p = Main(w) THEN NoClaim ELSE held[w]]
  /\ Return(p)
  /\ UNCHANGED db

\* A request fails and the call does not look: it goes on at the step that is
\* given in goesOn for it, 0 for its end.
FailUnseen(p, goesOn) ==
  /\ ~Free(p) /\ Spend
  /\ \E g \in goesOn : /\ g[1] = calls[p].op /\ g[2] = calls[p].step
                       /\ IF g[3] = 0 THEN Return(p) ELSE Goto(p, g[3])
  /\ hist' = [hist EXCEPT !.torn = TornHere(p)]
  /\ UNCHANGED <<db, held>>

Tick ==
  /\ now < setup.time
  /\ now' = now + 1
  /\ UNCHANGED <<setup, db, calls, held, hist, raced, budget>>
=============================================================================
