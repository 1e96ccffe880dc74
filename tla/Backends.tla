------------------------------ MODULE Backends ------------------------------
(***************************************************************************)
(* Worker pools, clients, a maintenance loop and an operator over any one  *)
(* of the drivers, and what the Executor contract of driver/driver.go      *)
(* promises them.                                                          *)
(***************************************************************************)
EXTENDS BackendBase

Memory     == INSTANCE MemoryStore
Pgx        == INSTANCE PgxStore
Stdlib     == INSTANCE StdlibStore
Mongo      == INSTANCE MongoStore
Firestore  == INSTANCE FirestoreStore
Dynamo     == INSTANCE DynamoStore
Cassandra  == INSTANCE CassandraStore
Redis      == INSTANCE RedisStore
ClickHouse == INSTANCE ClickHouseStore

DriverStep ==
  \/ driver = "memory" /\ Memory!Step
  \/ driver = "pgx" /\ Pgx!Step
  \/ driver = "stdlib" /\ Stdlib!Step
  \/ driver = "mongodb" /\ Mongo!Step
  \/ driver = "firestore" /\ Firestore!Step
  \/ driver = "dynamodb" /\ Dynamo!Step
  \/ driver = "cassandra" /\ Cassandra!Step
  \/ driver = "redis" /\ Redis!Step
  \/ driver = "clickhouse" /\ ClickHouse!Step

\* The drivers whose calls may act on a job that has changed since they read
\* it.
Unguarded == {"stdlib", "mongodb", "firestore", "redis", "clickhouse"}

\* The row of j, and its members in the sorted sets of Redis.
Stored(j) == <<Row(j), {e \in db.avail : e[1] = j}, {e \in db.sched : e[1] = j}>>

\* Jobs that this step changes under the call of another thread.
ChangedUnderCall ==
  {j \in Jobs : Stored(j)' # Stored(j)
                /\ \E p \in Threads : calls[p].job = j /\ calls'[p] = calls[p]}

Next ==
  \/ /\ DriverStep \/ \E w \in Workers : setStateFails(w)
     /\ raced' = IF driver \in Unguarded THEN raced \cup ChangedUnderCall ELSE {}
     /\ UNCHANGED <<setup, now>>
  \/ Tick

Spec == Init /\ [][Next]_vars

-----------------------------------------------------------------------------
(* What the contract promises.  The exceptions are the windows that the    *)
(* drivers named in them leave open.                                       *)

\* No call is in flight.
Quiet == \A p \in Threads : Free(p)

\* Jobs with a call that ended half way, or whose lookup entry was deleted
\* under them.
Torn == {t[1] : t \in hist.torn}

\* Jobs on which two calls have overlapped, or one has ended half way.
Disturbed == raced \cup Torn

\* The rows, the lookup tables, the calls and the claims have their types:
\* no driver leaves a row without a state or a claim on no job.
TypeOK ==
  /\ setup \in Setups /\ now \in 0..setup.time /\ budget \in 0..setup.budget
  /\ db.seq \in 0..setup.jobs /\ db.uniq \in 0..setup.jobs
  /\ \A e \in db.avail \cup db.sched \cup db.run : e \in Jobs \X Nat
  /\ \A j \in Jobs : Row(j).state \in {"none", "deleted", "running"} \cup Pending \cup Terminal
  /\ \A p \in Threads : calls[p].job \in 0..setup.jobs
  /\ \A w \in Workers : held[w].job \in 0..setup.jobs

\* A claim that JobFetchBatch has returned stays the row's claim until its
\* worker settles it: only a rescue of an expired lease, a rescheduling or a
\* deletion takes it away.  In stdlib and ClickHouse a fetch that has read
\* the row before may take it, in Redis a cancellation or a rescheduling that
\* has; in Firestore the claim stays, but its attempt may be behind the row's.
ClaimKept ==
  \A w \in Workers : held[w] # NoClaim /\ ~held[w].revoked =>
    \/ Matches(Row(held[w].job), held[w])
    \/ driver \in {"stdlib", "clickhouse", "redis"} /\ held[w].job \in Disturbed
    \/ /\ driver = "firestore"
       /\ Row(held[w].job).state = "running" /\ Row(held[w].job).worker = Id(w)
       /\ held[w].attempt < Row(held[w].job).attempt

\* JobFetchBatch gives a job to one worker at a time: two workers hold it
\* only if a rescue or an operator has taken it from the first.
ClaimedOnce ==
  \A v, w \in Workers :
    v # w /\ held[v] # NoClaim /\ held[w] # NoClaim /\ held[v].job = held[w].job =>
      held[v].revoked \/ held[w].revoked

\* ErrStaleClaim, on which the pool silently drops the outcome of a job, is
\* told only to a worker whose claim a rescue or an operator has taken away:
\* not because of its own start mark, of the other calls that touch the row or
\* of a yield that gives the attempt back.  Exceptions: DynamoDB and Cassandra
\* compare versions, which the worker's own heartbeats move; DynamoDB may read
\* the item as it was before the claim; a claim that ClaimKept excepts.
OutcomeKept ==
  \A j \in hist.dropped :
    \/ driver \in {"dynamodb", "cassandra"} /\ setup.beats
    \/ driver = "dynamodb" /\ j \in Torn
    \/ driver \in {"stdlib", "firestore", "redis", "clickhouse"} /\ j \in Disturbed

\* No outcome is stored for a claim that a rescue or an operator has taken away,
\* also when the job is claimed again by the same pool, under one WorkerID.  In
\* stdlib two fetches may return one claim, which one of the workers then gives
\* back; in Redis a rescheduling puts back the attempt it has read, and the next
\* claim has the number of a claim before; in ClickHouse nothing compares the
\* claim once the row was read.
OutcomeFenced ==
  \A j \in hist.stale : driver \in {"stdlib", "redis", "clickhouse"} /\ j \in Disturbed

\* A job whose JobCancel has returned nil is nobody's claim.  The calls that
\* read before they write may cross with it: the cancellation of MongoDB and
\* Redis, the claim of stdlib, both in ClickHouse.
CancelHonoured ==
  \A w \in Workers :
    held[w] # NoClaim /\ ~held[w].revoked /\ held[w].job \in hist.cancelled =>
      driver \in {"mongodb", "stdlib", "clickhouse", "redis"} /\ held[w].job \in Disturbed


\* Redis and Cassandra find jobs through lookup tables: a pending job is
\* listed where a fetch looks once it is due, a running one where a rescue
\* looks once its lease has run out.  A call that ends half way, or one that
\* deletes the entry of a row that has changed, leaves it unlisted for good.
\* In Redis a rescheduling beside a fetch does; Cassandra never lists a job
\* again that was rescheduled.
Findable ==
  driver \in {"redis", "cassandra"} /\ Quiet => \A j \in Jobs :
    \/ j \in Disturbed
    \/ driver = "cassandra" /\ j \in hist.moved
    \/ Row(j).state \in Pending
       /\ \E e \in db.avail \cup db.sched : e[1] = j /\ e[2] <= Row(j).runAt
    \/ Row(j).state = "running" /\ \E e \in db.run : e[1] = j /\ e[2] <= Row(j).lease
    \/ Row(j).state \notin Pending \cup {"running"}

\* A job keeps an active-only key while it is active, a permanent one as long
\* as it is stored.
Keeps(j) == IF setup.key = "forever" THEN Exists(j) ELSE Active(j)

\* No two jobs keep one unique key once the calls are over.  Exceptions:
\* ClickHouse checks softly; a job that ended may be rescheduled beside its
\* successor; a unique-key table may lose the reservation of another job; the
\* claim of stdlib revives a job that was cancelled meanwhile; Redis gives the
\* key of a cancelled job away before the job is, Cassandra that of an insertion
\* it could not undo.
KeyExclusive ==
  Quiet /\ setup.key # "none" => \A i, j \in Jobs : i # j /\ Keeps(i) /\ Keeps(j) =>
    \/ driver = "clickhouse" \/ hist.freed \/ {i, j} \cap hist.moved # {}
    \/ driver \in {"stdlib", "redis", "cassandra"} /\ {i, j} \cap Disturbed # {}

\* A reservation belongs to a job that is there, and to an active one if the
\* key is active-only: a key is not lost for ever.
KeysReleased ==
  Quiet /\ db.uniq # 0 =>
    \/ Exists(db.uniq) /\ (setup.key = "active" => Active(db.uniq))
    \/ db.uniq \in Torn

\* started_at of a running job is of its present attempt: no start mark of an
\* attempt that was taken away survives into the next.
StartMarkCurrent ==
  \A j \in Jobs : Row(j).state = "running" => Row(j).started \in {0, Row(j).attempt}
=============================================================================
