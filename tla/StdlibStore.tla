----------------------------- MODULE StdlibStore -----------------------------
(***************************************************************************)
(* driver/stdlib on MySQL, SQLite and PostgreSQL, and with it driver/bun   *)
(* and driver/gorm.  The calls are single statements, except the claim     *)
(* (three statements, each its own transaction on the pool's *sql.DB) and  *)
(* the insertion of a job with a unique key.                               *)
(***************************************************************************)
EXTENDS RowStatements

-----------------------------------------------------------------------------
(* jobInsertMany.                                                          *)

\* findUniqueJob found nothing.
insertLookup(c, delay) ==
  /\ Free(Caller(c)) /\ db.seq < setup.jobs
  /\ ~KeyTaken
  /\ Await(Caller(c), "insert", 2, 0, NoRow, delay, now)
  /\ UNCHANGED <<db, held, hist, budget>>

\* Mutant: the table has no unique index.
insertWithoutIndex(c) ==
  /\ At(Caller(c), "insert", 2)
  /\ db' = IF db.seq < setup.jobs THEN Inserted(calls[Caller(c)].arg, calls[Caller(c)].at) ELSE db
  /\ Return(Caller(c))
  /\ UNCHANGED <<held, hist, budget>>

\* The unique index decides; the loser looks the winner up.
insertRow(c) ==
  /\ At(Caller(c), "insert", 2)
  /\ \/ InsertStatement(calls[Caller(c)].arg, calls[Caller(c)].at)
     \/ (KeyTaken \/ db.seq = setup.jobs) /\ UNCHANGED db
  /\ Return(Caller(c))
  /\ UNCHANGED <<held, hist, budget>>

-----------------------------------------------------------------------------
(* jobFetchBatch.                                                          *)

\* The ids; the row locks of FOR UPDATE end with this statement.
selectIDs(w) ==
  /\ MayFetch(w)
  /\ \E j \in FirstDue :
       /\ Row(j).attempt < MaxAttempt
       /\ Await(Main(w), "fetch", 2, j, NoRow, 0, now)
  /\ UNCHANGED <<db, held, hist, budget>>

\* claimJobs: the rows are claimed by id, whatever their state is by now.
updateClaimed(w) ==
  LET j == calls[Main(w)].job IN
  /\ At(Main(w), "fetch", 2)
  /\ db' = IF Exists(j) THEN Put(j, Claimed(Row(j), w, calls[Main(w)].at)) ELSE db
  /\ Goto(Main(w), 3)
  /\ UNCHANGED <<held, hist, budget>>

\* The rows are claimed and nobody knows.
Halves == {<<"fetch", 3>>}

\* The row as it is now: it may be another worker's, or taken away already.
selectClaimed(w) ==
  LET j == calls[Main(w)].job IN
  /\ At(Main(w), "fetch", 3)
  /\ held' = IF Exists(j)
             THEN [Holding(w, j, Row(j).worker, Row(j).attempt)
                     EXCEPT ![w].revoked = Row(j).state # "running"]
             ELSE held
  /\ Return(Main(w))
  /\ UNCHANGED <<db, hist, budget>>

-----------------------------------------------------------------------------
(* The single statements.                                                  *)

jobRescueStuck == RescueStatement

jobHeartbeat(w) == HeartbeatStatement(w)

jobMarkStarted(w) == MarkStartedStatement(w)

\* MySQL and SQLite append the error in a statement of its own before.
jobSetStateIfRunning(w, o) == SettleStatement(w, o)

jobCancel(j) == CancelStatement(j)

jobDelete(j) == DeleteStatement(j)

jobReschedule(j, delay) == RescheduleStatement(j, delay)

queueSetPaused(paused) == PauseStatement(paused)

Step ==
  \/ \E c \in setup.clients : insertRow(c) \/ \E d \in Delays : insertLookup(c, d)
  \/ \E w \in Workers :
       \/ selectIDs(w) \/ updateClaimed(w) \/ selectClaimed(w)
       \/ jobHeartbeat(w) \/ jobMarkStarted(w)
       \/ \E o \in Outcomes : jobSetStateIfRunning(w, o)
  \/ jobRescueStuck \/ \E p \in Threads : Fail(p, Halves)
  \/ \E j \in Jobs : \/ jobCancel(j) \/ jobDelete(j)
                     \/ \E d \in Delays : jobReschedule(j, d)
  \/ \E paused \in BOOLEAN : queueSetPaused(paused)
=============================================================================
