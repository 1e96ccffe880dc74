------------------------- MODULE DistributedPipeline -------------------------
(***************************************************************************)
(* acquireDistributedPipeline: the claims of one PipelineID in several     *)
(* pools take turns through one leader lease.  The holder renews it every  *)
(* third of its duration and cancels the handler's context when a renewal  *)
(* fails; a claim that waits polls.  A goroutine of a pool that is behind  *)
(* another claim of the same pool waits for it first (pipelineGate).       *)
(*                                                                         *)
(* LeaderAttemptElect is a call of two accesses, between which the process *)
(* may pause: the clock is read and the row written (pgxv5, DynamoDB,      *)
(* Firestore), the row updated and else inserted (MongoDB, database/sql),  *)
(* or the row read and then written (Redis, Cassandra).                    *)
(***************************************************************************)
EXTENDS Integers, Sequences, FiniteSets, SequencesExt

CONSTANTS
  Drivers,    \* the drivers the pools may share, of those in Kinds
  Claims,     \* claimed jobs of the pipeline; each is its own lease owner
  PoolOf,     \* [Claims -> pool]
  Lease,      \* PipelineLeaseDuration
  MaxFaults,  \* bound on failed calls, pauses, crashes and shutdowns
  NoOwner

Kinds == {"pgxv5", "mongodb", "redis", "cassandra"}

\* A duration below three nanoseconds would be renewed every second.
ASSUME PipelineAssumption ==
  /\ Drivers \subseteq Kinds
  /\ Lease \in Nat /\ Lease >= 3 /\ NoOwner \notin Claims /\ MaxFaults \in Nat

Pools == {PoolOf[c] : c \in Claims}

\* The interval of the renewal goroutine; a renewal is due when it is over.
renewEvery == Lease \div 3

VARIABLES
  driver,  \* the driver of the pools
  order,   \* per pool: its claims in the order it fetched them
  phase,   \* per claim: new, polling, running, cancelled, releasing, done
  since,   \* per claim: time since the renewal ticker fired
  term,    \* per claim: time since the call that last said "elected" began
  call,    \* per claim: the LeaderAttemptElect in flight
  lease,   \* the leader row of the pipeline: owner and time left
  misled,  \* history: claims told "elected" without holding the lease anew
  down,    \* crashed pools
  stalled, \* pools whose process is paused
  faults

vars == <<driver, order, phase, since, term, call, lease, misled, down, stalled, faults>>

Free == [owner |-> NoOwner, left |-> 0]
NoCall == [next |-> "none", age |-> 0]

Init ==
  /\ driver \in Drivers
  /\ order = [p \in Pools |-> << >>]
  /\ phase = [c \in Claims |-> "new"]
  /\ since = [c \in Claims |-> 0] /\ term = since
  /\ call = [c \in Claims |-> NoCall]
  /\ lease = Free
  /\ misled = {} /\ down = {} /\ stalled = {}
  /\ faults = 0

\* The pool of c runs.
Up(c) == PoolOf[c] \notin down \cup stalled

Fault == faults < MaxFaults /\ faults' = faults + 1

AtMost(a, b) == IF a < b THEN a ELSE b

\* Handlers are entered with a live context until it is cancelled.
Handling == {"running", "cancelled"}

\* The claims of the same pool that pipelineGate put before c.
Predecessors(c) ==
  LET queue == order[PoolOf[c]] IN
  {queue[i] : i \in {n \in DOMAIN queue : \A m \in 1..n : queue[m] # c}}

-----------------------------------------------------------------------------
(* The lease, as the executors keep it.                                    *)

\* Mutant: a lease that ran out is not free.
ElectableNoExpiry(c, age) == lease.owner \in {c, NoOwner}

\* The condition of the write, for a caller that read the clock age ago.
Electable(c, age) == lease.owner \in {c, NoOwner} \/ lease.left + age <= 0

\* The row expires one lease after the caller read the clock.
Holds(c, age) == [owner |-> c, left |-> Lease - age]

\* The clock is read; the one conditional write comes next.
pgxFirst(c) == "take"

\* UPDATE of a row that is expired or the caller's own; a missing row is
\* inserted next.
mongoFirst(c) == IF lease.owner # NoOwner /\ Electable(c, 0) THEN "won" ELSE "insert"

\* SETNX, and GET when the key exists.
redisFirst(c) ==
  IF lease.left <= 0 THEN "won"
  ELSE IF lease.owner = c THEN "expire" ELSE "lost"

\* SELECT: an absent or expired row is taken by compare-and-set next, an own
\* one is extended.
cassandraFirst(c) ==
  IF lease.owner = NoOwner \/ lease.left <= 0 THEN "take"
  ELSE IF lease.owner = c THEN "extend" ELSE "lost"

\* What the first access decides, or the access that follows it.
First(c) ==
  CASE driver = "pgxv5" -> pgxFirst(c)
    [] driver = "mongodb" -> mongoFirst(c)
    [] driver = "redis" -> redisFirst(c)
    [] driver = "cassandra" -> cassandraFirst(c)

\* Whether the second access says "elected": EXPIRE and the extension do so
\* whatever became of the row.
Second(c) ==
  CASE call[c].next = "take" -> Electable(c, call[c].age)
    [] call[c].next = "insert" -> lease.owner = NoOwner
    [] call[c].next \in {"expire", "extend"} -> TRUE

\* EXPIRE extends whoever holds the key, the extension only the own row.
Written(c) ==
  CASE call[c].next = "expire" ->
         IF lease.left > 0 THEN [lease EXCEPT !.left = Lease] ELSE lease
    [] call[c].next = "extend" ->
         IF lease.owner = c THEN Holds(c, call[c].age) ELSE lease
    [] OTHER -> Holds(c, call[c].age)

\* The own lease was there to be extended.
Renewed(c) == lease.owner = c /\ (call[c].next = "expire" => lease.left > 0)

\* Mutant: the lease is deleted whoever holds it.
ResignedAny(c) == Free

Resigned(c) == IF lease.owner = c THEN Free ELSE lease

-----------------------------------------------------------------------------
(* One goroutine per claim, and its renewals.                              *)

\* Mutant: a finished claim is dispatched again.
ClaimAgain(c) ==
  /\ phase[c] \in {"new", "done"} /\ Up(c)
  /\ phase' = [phase EXCEPT ![c] = "polling"]
  /\ order' = [order EXCEPT ![PoolOf[c]] = Append(@, c)]
  /\ UNCHANGED <<driver, since, term, call, lease, misled, down, faults, stalled>>

Claim(c) ==
  /\ phase[c] = "new" /\ Up(c)
  /\ phase' = [phase EXCEPT ![c] = "polling"]
  /\ order' = [order EXCEPT ![PoolOf[c]] = Append(@, c)]
  /\ UNCHANGED <<driver, since, term, call, lease, misled, down, faults, stalled>>

\* The ticker of a handler whose context is cancelled is stopped.
Stopped(c) ==
  /\ since' = [since EXCEPT ![c] = 0]
  /\ term' = [term EXCEPT ![c] = 0]
  /\ misled' = misled \ {c}

\* Elected: the handler starts, with a new renewal ticker, or goes on; a tick
\* that passed during the call waits in the ticker.
Won(c, age) ==
  /\ phase' = [phase EXCEPT ![c] = IF @ = "polling" THEN "running" ELSE @]
  /\ since' = [since EXCEPT ![c] = IF phase[c] = "polling" THEN 0
                                  ELSE AtMost(age, renewEvery)]
  /\ term' = [term EXCEPT ![c] = age]

\* Not elected: a claim that waits polls again, a handler is cancelled.
Lost(c) ==
  /\ phase' = [phase EXCEPT ![c] = IF @ = "running" THEN "cancelled" ELSE @]
  /\ Stopped(c)

\* The first access of a call, which may give the lease away already.
Call(c) ==
  /\ call[c] = NoCall /\ First(c) # "lost"
  /\ IF First(c) = "won"
     THEN /\ lease' = Holds(c, 0) /\ misled' = misled \ {c}
          /\ Won(c, 0) /\ UNCHANGED call
     ELSE /\ call' = [call EXCEPT ![c] = [next |-> First(c), age |-> 0]]
          /\ UNCHANGED <<phase, since, term, lease, misled>>
  /\ UNCHANGED <<driver, order, down, faults, stalled>>

\* A poll for a lease that is not to be had changes nothing.
Poll(c) ==
  /\ phase[c] = "polling" /\ Up(c)
  /\ \A d \in Predecessors(c) : phase[d] = "done"
  /\ Electable(c, 0)
  /\ Call(c)

RenewalDue(c) == phase[c] = "running" /\ Up(c) /\ since[c] >= renewEvery

\* The renewal ticker.
Renew(c) == RenewalDue(c) /\ Call(c)

\* The first access finds the lease with another owner.
RenewRefused(c) ==
  /\ RenewalDue(c)
  /\ call[c] = NoCall /\ First(c) = "lost"
  /\ Lost(c)
  /\ UNCHANGED <<driver, order, call, lease, down, faults, stalled>>

\* The second access and the answer.
Answer(c) ==
  /\ call[c] # NoCall /\ phase[c] # "releasing" /\ Up(c)
  /\ call' = [call EXCEPT ![c] = NoCall]
  /\ IF Second(c)
     THEN /\ lease' = Written(c)
          /\ misled' = IF call[c].next \in {"take", "insert"} \/ Renewed(c)
                       THEN misled \ {c} ELSE misled \cup {c}
          /\ Won(c, call[c].age)
     ELSE Lost(c) /\ UNCHANGED lease
  /\ UNCHANGED <<driver, order, down, faults, stalled>>

\* The call fails, with or without effect: a handler is cancelled.
CallError(c) ==
  /\ call[c] # NoCall /\ phase[c] # "releasing" /\ Up(c)
  /\ Fault
  /\ call' = [call EXCEPT ![c] = NoCall]
  /\ (Second(c) /\ lease' = Written(c)) \/ UNCHANGED lease
  /\ Lost(c)
  /\ UNCHANGED <<driver, order, down, stalled>>

\* leaderAttemptElect of Redis does not look at the error of EXPIRE.
ExpireError(c) ==
  /\ call[c].next = "expire" /\ phase[c] # "releasing" /\ Up(c)
  /\ Fault
  /\ call' = [call EXCEPT ![c] = NoCall]
  /\ misled' = misled \cup {c}
  /\ Won(c, call[c].age)
  /\ UNCHANGED <<driver, order, lease, down, stalled>>

\* The pool shuts down or the claim is lost before the lease was won.
GiveUp(c) ==
  /\ phase[c] = "polling" /\ call[c] = NoCall /\ Up(c)
  /\ Fault
  /\ phase' = [phase EXCEPT ![c] = "done"]
  /\ UNCHANGED <<driver, order, since, term, call, lease, misled, down, stalled>>

\* The handler returns; release() stops the renewals.
Return(c) ==
  /\ phase[c] \in Handling /\ Up(c)
  /\ phase' = [phase EXCEPT ![c] = "releasing"]
  /\ Stopped(c)
  /\ UNCHANGED <<driver, order, call, lease, down, faults, stalled>>

\* release() waits for the renewal in flight, whose context is cancelled.
Await(c) ==
  /\ phase[c] = "releasing" /\ call[c] # NoCall /\ Up(c)
  /\ call' = [call EXCEPT ![c] = NoCall]
  /\ (Second(c) /\ lease' = Written(c)) \/ UNCHANGED lease
  /\ UNCHANGED <<driver, order, phase, since, term, misled, down, faults, stalled>>

Resign(c) ==
  /\ phase[c] = "releasing" /\ call[c] = NoCall /\ Up(c)
  /\ lease' = Resigned(c)
  /\ phase' = [phase EXCEPT ![c] = "done"]
  /\ UNCHANGED <<driver, order, since, term, call, misled, down, faults, stalled>>

\* Reported only; the lease runs out by itself.
ResignError(c) ==
  /\ phase[c] = "releasing" /\ call[c] = NoCall /\ Up(c)
  /\ Fault
  /\ phase' = [phase EXCEPT ![c] = "done"]
  /\ UNCHANGED <<driver, order, since, term, call, lease, misled, down, stalled>>

Crash(p) ==
  /\ p \notin down
  /\ Fault
  /\ down' = down \cup {p}
  /\ stalled' = stalled \ {p}
  /\ phase' = [c \in Claims |-> IF PoolOf[c] = p THEN "done" ELSE phase[c]]
  /\ call' = [c \in Claims |-> IF PoolOf[c] = p THEN NoCall ELSE call[c]]
  /\ since' = [c \in Claims |-> IF PoolOf[c] = p THEN 0 ELSE since[c]]
  /\ term' = [c \in Claims |-> IF PoolOf[c] = p THEN 0 ELSE term[c]]
  /\ misled' = {c \in misled : PoolOf[c] # p}
  /\ UNCHANGED <<driver, order, lease>>

\* The process stops for a while, its tickers and calls with it.
Stall(p) ==
  /\ p \notin down \cup stalled
  /\ Fault
  /\ stalled' = stalled \cup {p}
  /\ UNCHANGED <<driver, order, phase, since, term, call, lease, misled, down>>

Wake(p) ==
  /\ p \in stalled
  /\ stalled' = stalled \ {p}
  /\ UNCHANGED <<driver, order, phase, since, term, call, lease, misled, down, faults>>

\* How long ago the lease ran out matters to calls that read the clock before.
Overdue ==
  IF lease.owner = NoOwner \/ \A c \in Claims : call[c] = NoCall THEN 0 ELSE -Lease

\* Time passes; in a pool that runs, calls are quick and the renewal ticker is
\* not late.
Tick ==
  /\ \A c \in Claims : Up(c) => call[c] = NoCall
  /\ \A c \in Claims : Up(c) /\ phase[c] = "running" => since[c] < renewEvery
  /\ \/ lease.left > 0
     \/ \E c \in Claims : phase[c] = "running" \/ call[c] # NoCall
  /\ lease' = [lease EXCEPT !.left = IF @ > Overdue THEN @ - 1 ELSE @]
  /\ since' = [c \in Claims |-> IF phase[c] = "running"
                              THEN AtMost(since[c] + 1, renewEvery) ELSE since[c]]
  /\ term' = [c \in Claims |-> IF phase[c] = "running"
                             THEN AtMost(term[c] + 1, Lease) ELSE term[c]]
  /\ call' = [c \in Claims |-> IF call[c] = NoCall THEN NoCall
                             ELSE [call[c] EXCEPT !.age = AtMost(@ + 1, Lease)]]
  /\ UNCHANGED <<driver, order, phase, misled, down, faults, stalled>>

Next ==
  \/ Tick
  \/ \E c \in Claims : \/ Claim(c) \/ Poll(c) \/ Renew(c) \/ RenewRefused(c)
                       \/ Answer(c) \/ CallError(c) \/ ExpireError(c) \/ GiveUp(c)
                       \/ Return(c) \/ Await(c) \/ Resign(c) \/ ResignError(c)
  \/ \E p \in Pools : Crash(p) \/ Stall(p) \/ Wake(p)

Spec == Init /\ [][Next]_vars

\* Polls, calls and renewals go on, handlers return, pauses end and time
\* passes.
FairSpec ==
  /\ Spec
  /\ WF_vars(Tick)
  /\ \A c \in Claims : /\ WF_vars(Poll(c)) /\ WF_vars(Renew(c) \/ RenewRefused(c))
                       /\ WF_vars(Answer(c))
                       /\ WF_vars(Return(c)) /\ WF_vars(Await(c)) /\ WF_vars(Resign(c))
                       /\ WF_vars(Wake(PoolOf[c]))

-----------------------------------------------------------------------------
(* Properties.                                                             *)

\* The state of the claims: each is fetched once, and before it handles
\* (acquireDistributedPipeline); only Redis and Cassandra answer a renewal
\* without having written the caller's row (leaderAttemptElect).
TypeOK ==
  /\ driver \in Drivers
  /\ \A p \in Pools : IsInjective(order[p]) /\ Range(order[p]) \subseteq Claims
  /\ \A c \in Claims :
       /\ phase[c] \in Handling \cup {"new", "polling", "releasing", "done"}
       /\ since[c] \in 0..renewEvery /\ term[c] \in 0..Lease
       /\ phase[c] \in Handling => c \in Range(order[PoolOf[c]])
       /\ call[c].next \in {"none", "take", "insert", "expire", "extend"}
       /\ call[c] # NoCall => phase[c] \in Handling \cup {"polling", "releasing"}
  /\ lease.owner \in Claims \cup {NoOwner} /\ lease.left \in -Lease..Lease
  /\ misled # {} => driver \in {"redis", "cassandra"}

\* The handlers that run with a live context within the lease they were told
\* they hold, but for those whose last renewal Redis or Cassandra confirmed
\* without extending the lease.
LiveHandlers ==
  {c \in Claims : phase[c] = "running" /\ term[c] < Lease /\ c \notin misled}

\* Why turns are kept: the row names a live handler and outlasts the time the
\* handler counts from the beginning of its call (leaderAttemptElect).
LeaseCovers ==
  \A c \in LiveHandlers : lease.owner = c /\ lease.left >= Lease - term[c]

\* "extend the guarantee across worker processes": no two handlers of a
\* pipeline are live, in whatever pools, through failed calls and
\* resignations, crashes and pauses, also inside a call
\* (acquireDistributedPipeline, leaderAttemptElect).
OneLiveHandler == Cardinality(LiveHandlers) <= 1

\* A pipeline does not jam: whatever crashes, and whichever call fails, every
\* claim that polls wins the lease or is given up (the lease expires).
PipelineAdvances == \A c \in Claims : phase[c] = "polling" ~> phase[c] = "done"
=============================================================================
