----------------------------- MODULE WorkerPool -----------------------------
(***************************************************************************)
(* Inside one WorkerPool: fetchAndDispatch claims jobs from weighted       *)
(* queues, and a goroutine per claim passes its pipeline's predecessor,    *)
(* the key semaphores, the rate gate, the kind and the pool semaphore and  *)
(* the rate limiter before it runs the handler.  A goroutine undoes what   *)
(* it took with a stack of deferred calls, as the code does.               *)
(*                                                                         *)
(* Fencing, leases and attempts are ClaimProtocol's; here a claim is held, *)
(* or lost to another worker.  When a rate permit is granted is            *)
(* LocalRateLimits' and RateLimitCursor's; here it may come at any time or *)
(* never.                                                                  *)
(***************************************************************************)
EXTENDS Integers, Sequences, FiniteSets

CONSTANTS
  JobIDs,           \* the jobs in the store when the pool starts
  JobOf,            \* [JobIDs -> [queue, kind, pipeline, tag]]
  QueueList,        \* WorkerConfig.Queues
  Slots,            \* the places of the pending channel: 1..MaxPending
  Concurrency,      \* capacity of sem
  KindConcurrency,  \* [kind -> Nat]; 0: the kind is not limited
  Policies,         \* the queue policies operators choose from
  InitialPolicy,    \* [queue -> policy]
  MaxFaults,        \* bound on lost claims, failed fetches, retries,
                    \* cancellation and UpdateQueuePolicy calls
  NoPipeline,       \* the empty PipelineID
  None              \* a nil channel, entry or slot

ConfiguredQueues == {QueueList[i] : i \in DOMAIN QueueList}

Kinds == {JobOf[j].kind : j \in JobIDs}
Pipelines == {JobOf[j].pipeline : j \in JobIDs} \ {NoPipeline}

\* ValidateWorkerConfig and newWorkerPool: a queue without a weight has one,
\* a key rule has a limit and does not limit the queue.
ASSUME WorkerPoolAssumption ==
  /\ QueueList \in Seq(ConfiguredQueues) /\ QueueList # << >>
  /\ \A j \in JobIDs : JobOf[j].queue \in ConfiguredQueues
  /\ IsFiniteSet(Slots) /\ Slots = 1..Cardinality(Slots) /\ None \notin Slots
  /\ MaxFaults \in Nat
  /\ Concurrency \in 1..Cardinality(Slots)
  /\ KindConcurrency \in [Kinds -> Nat]
  /\ InitialPolicy \in [ConfiguredQueues -> Policies]
  /\ \A policy \in Policies :
       /\ policy.weight \in Nat \ {0} /\ policy.concurrency \in Nat
       /\ policy.keyConcurrency \in
            Seq([key : {"kind", "pipeline", "tag"}, limit : Nat \ {0}])

VARIABLES
  store,         \* per job: "available", "running" or "done"
  policies,      \* config.QueuePolicies and rateLimits
  fetch,         \* free and misses of the loop that holds fetchMu, or None
  cursor,        \* queueCursor, modulo the length of the schedule
  active,        \* queueStates[q].active
  tails,         \* pipelineTails: the slot whose done channel is the tail
  keySemaphores, \* entries in use: [entry -> [cap, held, refs]]
  rateGates,     \* gates in use: [signature -> [cap, held, refs]]
  gor,           \* the goroutine in each slot
  shuttingDown,  \* isShuttingDown, and shutdownCh is closed
  ctx,           \* the context given to Start: "live" or "done"
  updates,       \* UpdateQueuePolicy calls so far
  faults,        \* faults left
  broken         \* history: pipelines with a waiter that gave up its place

vars == <<store, policies, fetch, cursor, active, tails, keySemaphores, rateGates,
          gor, shuttingDown, ctx, updates, faults, broken>>

poolVars == <<store, policies, fetch, cursor, active, tails, updates, faults>>
lifeVars == <<shuttingDown, ctx>>

Waits  == {"pipeline", "keys", "gate", "kind", "sem", "rate"}
Stages == Waits \cup {"handling", "yielding", "closing"}

\* What a goroutine takes and gives back, in the order of its defer statements.
Defers == <<"pending", "queue", "pipeline", "keys", "gate", "kind", "sem">>

Idle == [stage |-> "idle"]

Job(s)   == JobOf[gor[s].job]
Busy     == {s \in Slots : gor[s] # Idle}
Has(s, r) == gor[s] # Idle /\ r \in gor[s].defers

\* claimCtx.Err() # nil
CtxDone(s) == gor[s].lost \/ ctx = "done"

Init ==
  /\ store = [j \in JobIDs |-> "available"]
  /\ policies = InitialPolicy
  /\ fetch = None
  /\ cursor = 0
  /\ active = [q \in ConfiguredQueues |-> 0]
  /\ tails = [l \in Pipelines |-> None]
  /\ keySemaphores = << >>
  /\ rateGates = << >>
  /\ gor = [s \in Slots |-> Idle]
  /\ shuttingDown = FALSE
  /\ ctx = "live"
  /\ updates = 0
  /\ faults = MaxFaults
  /\ broken = {}

-----------------------------------------------------------------------------
(* Reference-counted semaphores, kept in a map while someone refers to     *)
(* them: keySemaphores and rateGates.                                      *)

Entry(sems, k, cap) ==
  IF k \in DOMAIN sems THEN sems[k] ELSE [cap |-> cap, held |-> 0, refs |-> 0]

\* A new entry takes its capacity from the caller, an old one keeps its own.
Refer(sems, k, cap) ==
  LET e == [Entry(sems, k, cap) EXCEPT !.refs = @ + 1]
  IN [x \in DOMAIN sems \cup {k} |-> IF x = k THEN e ELSE sems[x]]

Take(sems, k) == [sems EXCEPT ![k].held = @ + 1]

\* Mutant: the count is tested before it is lowered.
DropLate(sems, K) ==
  [k \in DOMAIN sems \ {x \in K : sems[x].refs = 0} |->
     IF k \in K THEN [sems[k] EXCEPT !.refs = @ - 1] ELSE sems[k]]

\* One reference less to each entry of K; the last one takes the entry out of
\* the map.
Drop(sems, K) ==
  [k \in DOMAIN sems \ {x \in K : sems[x].refs = 1} |->
     IF k \in K THEN [sems[k] EXCEPT !.refs = @ - 1] ELSE sems[k]]

GivePlaces(sems, K) ==
  [k \in DOMAIN sems |-> IF k \in K THEN [sems[k] EXCEPT !.held = @ - 1] ELSE sems[k]]

\* Mutant: a place is given back, the reference is not.
ReturnKeepingRef(sems, K) == GivePlaces(sems, K)

Return(sems, K) == Drop(GivePlaces(sems, K), K)

\* Mutant: one place too many.
CanTakeOneMore(sems, k) == sems[k].held <= sems[k].cap

CanTake(sems, k) == sems[k].held < sems[k].cap

\* rateLimitKeyValue: the attribute of the job that owns the budget.
rateLimitKeyValue(keyBy, job) ==
  CASE keyBy = "kind"     -> job.kind
    [] keyBy = "pipeline" -> job.pipeline
    [] keyBy = "tag"      -> job.tag
    [] OTHER              -> job.queue

KeyRules(q)  == policies[q].keyConcurrency
RateRules(q) == policies[q].rateLimits

\* The entry of a rule: queue, position of the rule and key value.
KeyEntry(job, i, rule) == <<job.queue, i, rateLimitKeyValue(rule.key, job)>>

\* The entries a goroutine has a place in, and the one it waits for.
KeysTaken(s)  == {KeyEntry(Job(s), i, gor[s].rules[i]) : i \in 1..gor[s].keys}
KeyWanted(s) == KeyEntry(Job(s), gor[s].keys + 1, gor[s].rules[gor[s].keys + 1])

\* The signature of acquireRateGate: every rule with its key value.
Signature(job, rules) ==
  <<job.queue, [i \in DOMAIN rules |-> <<rules[i], rateLimitKeyValue(rules[i].key, job)>>]>>

GateKey(job) == Signature(job, RateRules(job.queue))

Gates == {Signature(JobOf[j], policy.rateLimits) : j \in JobIDs, policy \in Policies}

ASSUME NoneIsNoGate == None \notin Gates

-----------------------------------------------------------------------------
(* fetchAndDispatch, which holds fetchMu from BeginFetch to EndFetch.      *)

\* queueSchedule: every queue in turn, as often as its weight says.
Turns == UNION {{i} \X (1..policies[QueueList[i]].weight) : i \in DOMAIN QueueList}

ScheduleLength == Cardinality(Turns)

\* The queue at a position, from 0.
queueSchedule(n) ==
  QueueList[CHOOSE i \in DOMAIN QueueList :
    /\ Cardinality({turn \in Turns : turn[1] < i}) <= n
    /\ Cardinality({turn \in Turns : turn[1] <= i}) > n]

queueCanClaim(q) ==
  policies[q].concurrency > 0 => active[q] < policies[q].concurrency

BeginFetch ==
  /\ fetch = None
  /\ ~shuttingDown
  /\ Busy # Slots
  /\ fetch' = [free |-> Cardinality(Slots \ Busy), misses |-> 0]
  /\ UNCHANGED <<store, policies, cursor, active, tails, keySemaphores, rateGates,
                 gor, lifeVars, updates, faults, broken>>

Fetching == fetch # None /\ fetch.free > 0 /\ fetch.misses < ScheduleLength

NextQueue == queueSchedule(cursor)

Advance == cursor' = (cursor + 1) % ScheduleLength

\* The queue is at its limit, has no job to claim, or the store fails.
FetchMiss ==
  /\ Fetching
  /\ Advance
  /\ fetch' = [fetch EXCEPT !.misses = @ + 1]
  /\ \/ /\ \/ ~queueCanClaim(NextQueue)
           \/ \A j \in JobIDs : JobOf[j].queue = NextQueue => store[j] # "available"
        /\ UNCHANGED faults
     \/ queueCanClaim(NextQueue) /\ faults > 0 /\ faults' = faults - 1
  /\ UNCHANGED <<store, policies, active, tails, keySemaphores, rateGates,
                 gor, lifeVars, updates, broken>>

\* Mutant: the new job does not become the tail.
pipelineGateUnregistered(l, s) == tails

\* pipelineGate: wait for the current tail, be the next one.
pipelineGate(l, s) ==
  IF l = NoPipeline THEN tails ELSE [tails EXCEPT ![l] = s]

\* A job is claimed and its goroutine started, in a free slot.
FetchClaim ==
  /\ Fetching
  /\ queueCanClaim(NextQueue)
  /\ Advance
  /\ \E j \in JobIDs, s \in Slots \ Busy :
       LET l == JobOf[j].pipeline IN
       /\ JobOf[j].queue = NextQueue
       /\ store[j] = "available"
       /\ \A r \in Slots \ Busy : s <= r
       /\ store' = [store EXCEPT ![j] = "running"]
       /\ tails' = pipelineGate(l, s)
       /\ gor' = [gor EXCEPT ![s] =
            [stage |-> "pipeline", job |-> j, lost |-> FALSE,
             after |-> IF l = NoPipeline THEN None ELSE tails[l],
             gated |-> l # NoPipeline /\ tails[l] # None,
             rules |-> << >>, keys |-> 0, want |-> FALSE, gate |-> None,
             defers |-> {"pending", "queue", "pipeline"}]]
  /\ active' = [active EXCEPT ![NextQueue] = @ + 1]
  /\ fetch' = [free |-> fetch.free - 1, misses |-> 0]
  /\ UNCHANGED <<policies, keySemaphores, rateGates, lifeVars, updates, faults, broken>>

EndFetch ==
  /\ fetch # None
  /\ ~Fetching
  /\ fetch' = None
  /\ UNCHANGED <<store, policies, cursor, active, tails, keySemaphores, rateGates,
                 gor, lifeVars, updates, faults, broken>>

-----------------------------------------------------------------------------
(* The goroutine of a claim, up to its handler.                            *)

\* pipelineReady is nil or closed; acquireKeyConcurrency reads the policy.
PassPipeline(s) ==
  /\ gor[s].stage = "pipeline"
  /\ gor[s].after = None
  /\ gor' = [gor EXCEPT ![s].stage = "keys", ![s].rules = KeyRules(Job(s).queue)]
  /\ UNCHANGED <<poolVars, keySemaphores, rateGates, lifeVars, broken>>

\* Refer to the entry of the next rule, then wait for a place in it.
KeyRefer(s) ==
  /\ gor[s].stage = "keys" /\ ~gor[s].want
  /\ gor[s].keys < Len(gor[s].rules)
  /\ keySemaphores' = Refer(keySemaphores, KeyWanted(s), gor[s].rules[gor[s].keys + 1].limit)
  /\ gor' = [gor EXCEPT ![s].want = TRUE]
  /\ UNCHANGED <<poolVars, rateGates, lifeVars, broken>>

KeyAcquire(s) ==
  /\ gor[s].stage = "keys" /\ gor[s].want
  /\ CanTake(keySemaphores, KeyWanted(s))
  /\ keySemaphores' = Take(keySemaphores, KeyWanted(s))
  /\ gor' = [gor EXCEPT ![s].keys = @ + 1, ![s].want = FALSE]
  /\ UNCHANGED <<poolVars, rateGates, lifeVars, broken>>

KeysAcquired(s) ==
  /\ gor[s].stage = "keys" /\ ~gor[s].want
  /\ gor[s].keys = Len(gor[s].rules)
  /\ gor' = [gor EXCEPT ![s].stage = "gate", ![s].defers = @ \cup {"keys"}]
  /\ UNCHANGED <<poolVars, keySemaphores, rateGates, lifeVars, broken>>

\* acquireRateGate: without rate rules there is no gate.
GateRefer(s) ==
  /\ gor[s].stage = "gate" /\ gor[s].gate = None
  /\ IF RateRules(Job(s).queue) = << >>
     THEN /\ gor' = [gor EXCEPT ![s].stage = "kind"]
          /\ UNCHANGED rateGates
     ELSE /\ gor' = [gor EXCEPT ![s].gate = GateKey(Job(s))]
          /\ rateGates' = Refer(rateGates, GateKey(Job(s)), 1)
  /\ UNCHANGED <<poolVars, keySemaphores, lifeVars, broken>>

GateAcquire(s) ==
  /\ gor[s].stage = "gate" /\ gor[s].gate # None
  /\ CanTake(rateGates, gor[s].gate)
  /\ rateGates' = Take(rateGates, gor[s].gate)
  /\ gor' = [gor EXCEPT ![s].stage = "kind", ![s].defers = @ \cup {"gate"}]
  /\ UNCHANGED <<poolVars, keySemaphores, lifeVars, broken>>

KindAcquire(s) ==
  LET limit == KindConcurrency[Job(s).kind] IN
  /\ gor[s].stage = "kind"
  /\ limit > 0 =>
       Cardinality({t \in Slots : Has(t, "kind") /\ Job(t).kind = Job(s).kind}) < limit
  /\ gor' = [gor EXCEPT ![s].stage = "sem",
                        ![s].defers = IF limit > 0 THEN @ \cup {"kind"} ELSE @]
  /\ UNCHANGED <<poolVars, keySemaphores, rateGates, lifeVars, broken>>

SemAcquire(s) ==
  /\ gor[s].stage = "sem"
  /\ Cardinality({t \in Slots : Has(t, "sem")}) < Concurrency
  /\ gor' = [gor EXCEPT ![s].stage = "rate", ![s].defers = @ \cup {"sem"}]
  /\ UNCHANGED <<poolVars, keySemaphores, rateGates, lifeVars, broken>>

\* Every rule has granted a permit: let the next job through the gate, start.
StartHandler(s) ==
  /\ gor[s].stage = "rate"
  /\ gor' = [gor EXCEPT ![s].stage = "handling", ![s].gate = None,
                        ![s].defers = @ \ {"gate"}]
  /\ rateGates' = IF Has(s, "gate") THEN Return(rateGates, {gor[s].gate}) ELSE rateGates
  /\ UNCHANGED <<poolVars, keySemaphores, lifeVars, broken>>

-----------------------------------------------------------------------------
(* The ways out: a wait given up, the handler's return, deferred calls.    *)

\* Mutant: the wait for a rate permit is a plain sleep.
SelectingExceptRate(s) ==
  \/ gor[s].stage = "pipeline" /\ gor[s].gated
  \/ gor[s].stage = "keys" /\ gor[s].want
  \/ gor[s].stage = "gate" /\ gor[s].gate # None
  \/ gor[s].stage = "kind" /\ KindConcurrency[Job(s).kind] > 0
  \/ gor[s].stage = "sem"

\* The wait the goroutine is in is a select that sees claimCtx.
Selecting(s) ==
  \/ gor[s].stage = "pipeline" /\ gor[s].gated
  \/ gor[s].stage = "keys" /\ gor[s].want
  \/ gor[s].stage = "gate" /\ gor[s].gate # None
  \/ gor[s].stage = "kind" /\ KindConcurrency[Job(s).kind] > 0
  \/ gor[s].stage = "sem"
  \/ gor[s].stage = "rate" /\ RateRules(Job(s).queue) # << >>

\* Only the wait for the kind semaphore does not see shutdownCh.
GiveUp(s) ==
  /\ Selecting(s)
  /\ CtxDone(s) \/ (shuttingDown /\ gor[s].stage # "kind")
  /\ gor' = [gor EXCEPT ![s].stage = "yielding", ![s].want = FALSE,
                        ![s].keys = IF gor[s].stage = "keys" THEN 0 ELSE @,
                        ![s].gate = IF gor[s].stage = "gate" THEN None ELSE @]
  /\ keySemaphores' =
       IF gor[s].stage = "keys"
       THEN Return(Drop(keySemaphores, {KeyWanted(s)}), KeysTaken(s))
       ELSE keySemaphores
  /\ rateGates' = IF gor[s].stage = "gate" THEN Drop(rateGates, {gor[s].gate}) ELSE rateGates
  /\ broken' = IF gor[s].stage = "pipeline" /\ gor[s].after # None
               THEN broken \cup {Job(s).pipeline} ELSE broken
  /\ UNCHANGED <<poolVars, lifeVars>>

\* setState; a lost claim is stale and changes nothing.
SetState(s, state) ==
  /\ store' = IF gor[s].lost THEN store ELSE [store EXCEPT ![gor[s].job] = state]
  /\ gor' = [gor EXCEPT ![s].stage = "closing"]

YieldClaim(s) ==
  /\ gor[s].stage = "yielding"
  /\ SetState(s, "available")
  /\ UNCHANGED <<policies, fetch, cursor, active, tails, keySemaphores, rateGates,
                 lifeVars, updates, faults, broken>>

\* processRow: interrupted, finished, or to be retried.
FinishHandler(s) ==
  /\ gor[s].stage = "handling"
  /\ \/ CtxDone(s) /\ SetState(s, "available") /\ UNCHANGED faults
     \/ ~CtxDone(s) /\ SetState(s, "done") /\ UNCHANGED faults
     \/ /\ ~CtxDone(s) /\ faults > 0 /\ faults' = faults - 1
        /\ SetState(s, "available")
  /\ UNCHANGED <<policies, fetch, cursor, active, tails, keySemaphores, rateGates,
                 lifeVars, updates, broken>>

LastDefer(S) ==
  Defers[CHOOSE i \in DOMAIN Defers :
           Defers[i] \in S /\ \A n \in DOMAIN Defers : Defers[n] \in S => n <= i]

\* The last deferred call runs.  Closing the done channel readies whoever
\* waits for it; the place in the pending channel is given back last.
Release(s) ==
  LET top == LastDefer(gor[s].defers) IN
  /\ gor[s].stage = "closing"
  /\ keySemaphores' = IF top = "keys"
                      THEN Return(keySemaphores, KeysTaken(s))
                      ELSE keySemaphores
  /\ rateGates' = IF top = "gate" THEN Return(rateGates, {gor[s].gate}) ELSE rateGates
  /\ tails' = IF top = "pipeline"
              THEN [l \in Pipelines |-> IF tails[l] = s THEN None ELSE tails[l]] ELSE tails
  /\ active' = IF top = "queue"
               THEN [active EXCEPT ![Job(s).queue] = @ - 1] ELSE active
  /\ gor' = [t \in Slots |->
       IF t = s
       THEN IF top = "pending" THEN Idle
            ELSE [gor[s] EXCEPT !.defers = @ \ {top},
                                !.keys = IF top = "keys" THEN 0 ELSE @,
                                !.gate = IF top = "gate" THEN None ELSE @]
       ELSE IF top = "pipeline" /\ gor[t] # Idle /\ gor[t].after = s
       THEN [gor[t] EXCEPT !.after = None]
       ELSE gor[t]]
  /\ UNCHANGED <<store, policies, fetch, cursor, lifeVars, updates, faults, broken>>

-----------------------------------------------------------------------------
(* What happens to the pool.                                               *)

\* The job was rescued for another claim, and the heartbeat noticed.
LoseClaim(s) ==
  /\ gor[s].stage \in Waits \cup {"handling"} /\ ~gor[s].lost
  /\ faults > 0 /\ faults' = faults - 1
  /\ store' = [store EXCEPT ![gor[s].job] = "available"]
  /\ gor' = [gor EXCEPT ![s].lost = TRUE]
  /\ UNCHANGED <<policies, fetch, cursor, active, tails, keySemaphores, rateGates,
                 lifeVars, updates, broken>>

Shutdown ==
  /\ fetch = None
  /\ ~shuttingDown
  /\ shuttingDown' = TRUE
  /\ UNCHANGED <<poolVars, keySemaphores, rateGates, gor, ctx, broken>>

\* runMainLoop calls Stop next; until then the listeners go on claiming.
CancelContext ==
  /\ faults > 0 /\ faults' = faults - 1
  /\ ctx = "live"
  /\ ctx' = "done"
  /\ UNCHANGED <<store, policies, fetch, cursor, active, tails, updates,
                 keySemaphores, rateGates, gor, shuttingDown, broken>>

\* The cursor keeps counting; its remainder by the new length is any.
UpdateQueuePolicy(q, policy) ==
  /\ fetch = None
  /\ faults > 0
  /\ policy # policies[q]
  /\ policies' = [policies EXCEPT ![q] = policy]
  /\ cursor' \in IF ScheduleLength' = ScheduleLength
                 THEN {cursor} ELSE 0..ScheduleLength' - 1
  /\ updates' = updates + 1
  /\ faults' = faults - 1
  /\ UNCHANGED <<store, fetch, active, tails, keySemaphores, rateGates, gor,
                 lifeVars, broken>>

-----------------------------------------------------------------------------
FetchStep == BeginFetch \/ FetchMiss \/ FetchClaim \/ EndFetch

Acquire(s) ==
  \/ PassPipeline(s) \/ KeyRefer(s) \/ KeyAcquire(s) \/ KeysAcquired(s)
  \/ GateRefer(s) \/ GateAcquire(s) \/ KindAcquire(s) \/ SemAcquire(s)

Leave(s) == YieldClaim(s) \/ FinishHandler(s) \/ Release(s)

Next ==
  \/ FetchStep
  \/ \E s \in Slots :
       Acquire(s) \/ StartHandler(s) \/ GiveUp(s) \/ Leave(s) \/ LoseClaim(s)
  \/ Shutdown \/ CancelContext
  \/ \E q \in ConfiguredQueues, policy \in Policies : UpdateQueuePolicy(q, policy)

Spec == Init /\ [][Next]_vars

\* A rate permit may be a day away; without rate rules there is none to wait for.
StartUnlimited(s) ==
  gor[s].stage = "rate" /\ RateRules(Job(s).queue) = << >> /\ StartHandler(s)

\* The pool does not stop while its fetch loop or a goroutine can go on: handlers
\* return, a wait that can end ends.
Fairness ==
  WF_vars(\/ FetchMiss \/ FetchClaim \/ EndFetch
          \/ \E s \in Slots : Acquire(s) \/ StartUnlimited(s) \/ GiveUp(s) \/ Leave(s))

FairSpec == Spec /\ Fairness

-----------------------------------------------------------------------------
(* Properties.                                                             *)

Semaphores == [cap : Nat \ {0}, held : Nat, refs : Nat \ {0}]

Goroutines ==
  [stage : Stages, job : JobIDs, lost : BOOLEAN, after : Slots \cup {None}, gated : BOOLEAN,
   rules : {<< >>} \cup {policy.keyConcurrency : policy \in Policies},
   keys : Nat, want : BOOLEAN, gate : Gates \cup {None},
   defers : SUBSET {Defers[i] : i \in DOMAIN Defers}]

\* Every variable keeps its shape: counters stay non-negative, a goroutine
\* takes no more keys than it has rules, and a semaphore in the map has a user.
TypeOK ==
  /\ store \in [JobIDs -> {"available", "running", "done"}]
  /\ policies \in [ConfiguredQueues -> Policies]
  /\ fetch = None \/ fetch \in [free : 0..Cardinality(Slots), misses : Nat]
  /\ cursor \in 0..ScheduleLength - 1
  /\ active \in [ConfiguredQueues -> 0..Cardinality(Slots)]
  /\ tails \in [Pipelines -> Slots \cup {None}]
  /\ \A k \in DOMAIN keySemaphores : keySemaphores[k] \in Semaphores
  /\ \A k \in DOMAIN rateGates : rateGates[k] \in Semaphores
  /\ gor \in [Slots -> {Idle} \cup Goroutines]
  /\ \A s \in Busy : gor[s].after # s /\ gor[s].keys <= Len(gor[s].rules)
  /\ shuttingDown \in BOOLEAN /\ ctx \in {"live", "done"}
  /\ updates \in Nat /\ faults \in Nat
  /\ broken \subseteq Pipelines

Handling(S) == {s \in S : gor[s].stage = "handling"}

\* No limit is exceeded.  At any time, policies replaced or not: handlers of the
\* pool and of a kind, holders of a key's semaphore, and jobs that pass one rate
\* gate to wait for a permit.  While no policy was replaced also claims of a
\* queue and handlers of a key value, by the policy.  Waits given up in the
\* middle of acquiring and entries deleted and created again do not admit one
\* more.
LimitsHold ==
  /\ Cardinality(Handling(Busy)) <= Concurrency
  /\ \A s \in Busy : KindConcurrency[Job(s).kind] > 0 =>
       Cardinality(Handling({t \in Busy : Job(t).kind = Job(s).kind})) <= KindConcurrency[Job(s).kind]
  /\ \A k \in DOMAIN keySemaphores :
       Cardinality({s \in Busy : k \in KeysTaken(s)}) <= keySemaphores[k].cap
  /\ \A s \in Busy : \A t \in Busy \ {s} :
       Has(s, "gate") /\ Has(t, "gate") => gor[s].gate # gor[t].gate
  /\ updates = 0 => \A s \in Busy :
       LET q == Job(s).queue IN
       /\ policies[q].concurrency > 0 =>
            Cardinality({t \in Busy : Has(t, "queue") /\ Job(t).queue = q})
            <= policies[q].concurrency
       /\ \A i \in DOMAIN KeyRules(q) :
            Cardinality(Handling({t \in Busy :
              KeyEntry(Job(t), i, KeyRules(q)[i]) = KeyEntry(Job(s), i, KeyRules(q)[i])}))
            <= KeyRules(q)[i].limit

\* The jobs of a pipeline pass the gate one at a time, unless a waiter left
\* the chain early: until the earlier one has closed its done channel, the
\* later one is still waiting in pipelineReady.
PipelineChain ==
  \A s, t \in Busy :
    /\ s # t /\ Job(s).pipeline = Job(t).pipeline
    /\ Job(s).pipeline \in Pipelines \ broken
    /\ Has(s, "pipeline") /\ Has(t, "pipeline")
    => gor[s].stage = "pipeline" \/ gor[t].stage = "pipeline"

\* Nothing leaks: when no goroutine is left, every counter is zero, every
\* pipeline has no tail and no semaphore entry or gate stays in its map,
\* however the goroutines left.
NothingLeaks ==
  Busy = {} =>
    /\ active = [q \in ConfiguredQueues |-> 0]
    /\ tails = [l \in Pipelines |-> None]
    /\ keySemaphores = << >> /\ rateGates = << >>

\* Shutdown drains: after it the fetch loop ends and every goroutine with it,
\* also the ones waiting for a permit that never comes or for each other.
ShutdownDrains == shuttingDown ~> (Busy = {} /\ fetch = None)

\* README.md:574, "Jobs with the same non-empty `PipelineID` run sequentially
\* in claim order inside one `WorkerPool`."
PipelinesSequential ==
  \A s, t \in Handling(Busy) :
    s # t /\ Job(s).pipeline = Job(t).pipeline => Job(s).pipeline = NoPipeline
=============================================================================
