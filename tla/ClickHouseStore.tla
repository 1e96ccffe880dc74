--------------------------- MODULE ClickHouseStore ---------------------------
(***************************************************************************)
(* driver/clickhouse: a ReplacingMergeTree read with FINAL.  Every change  *)
(* of a job is a read, and later the insertion of the row it makes of it   *)
(* with the next version; of two rows with one version the one inserted    *)
(* last stays.  calls keeps the row that will be inserted.                 *)
(***************************************************************************)
EXTENDS RowStatements

\* A read of job j by thread p that will insert row.
Prepare(p, op, j, row) == Await(p, op, 2, j, Bumped(row), 0, 0)

\* insertJobRow: a row with an older version is merged away.
Merged(p) ==
  LET call == calls[p] IN
  IF call.row.version >= Row(call.job).version THEN Put(call.job, call.row) ELSE db

-----------------------------------------------------------------------------
(* jobInsertMany: the soft check of the key, then the row.                 *)

SoftKeyTaken ==
  setup.key # "none" /\ \E i \in Jobs :
    Active(i) \/ (setup.key = "forever" /\ Row(i).state \notin {"none", "deleted"})

\* A check that fails has found nothing.
insertCheck(c, delay) ==
  /\ Free(Caller(c)) /\ db.seq < setup.jobs
  /\ StoppedUnlessReadFails(SoftKeyTaken)
  /\ Await(Caller(c), "insert", 2, 0, NoRow, delay, now)
  /\ UNCHANGED <<db, held, hist>>

insertRow(c) ==
  LET call == calls[Caller(c)] IN
  /\ At(Caller(c), "insert", 2)
  /\ db' = IF db.seq < setup.jobs THEN Inserted(call.arg, call.at) ELSE db
  /\ Goto(Caller(c), 3)
  /\ UNCHANGED <<held, hist, budget>>

\* The row of the queue, like that of a job, is the one with the highest
\* version, of equal ones the last.
QueueMerged(paused, version) ==
  IF version >= db.queueVersion
  THEN [db EXCEPT !.paused = paused, !.queueVersion = version] ELSE db

\* upsertQueue: the queue's row is missing, or the read fails.
upsertSelect(c) ==
  /\ At(Caller(c), "insert", 3)
  /\ \/ db.queueVersion > 0 /\ Return(Caller(c)) /\ UNCHANGED budget
     \/ StoppedUnlessReadFails(db.queueVersion > 0) /\ Goto(Caller(c), 4)
  /\ UNCHANGED <<db, held, hist>>

upsertInsert(c) ==
  /\ At(Caller(c), "insert", 4)
  /\ db' = QueueMerged(FALSE, 1)
  /\ Return(Caller(c))
  /\ UNCHANGED <<held, hist, budget>>

-----------------------------------------------------------------------------
(* jobFetchBatch.                                                          *)

\* The queue is not paused, or isQueuePaused cannot read it.
selectCandidates(w) ==
  /\ MayFetch(w) /\ StoppedUnlessReadFails(db.paused)
  /\ \E j \in FirstDue : /\ Row(j).attempt < MaxAttempt
                         /\ Prepare(Main(w), "fetch", j, Claimed(Row(j), w, now))
  /\ UNCHANGED <<db, held, hist>>

claimInsert(w) ==
  /\ At(Main(w), "fetch", 2)
  /\ db' = Merged(Main(w))
  /\ Goto(Main(w), 3)
  /\ UNCHANGED <<held, hist, budget>>

\* The jobs that are this worker's now are returned, as they are now.
claimConfirm(w) ==
  LET call == calls[Main(w)]
      row  == Row(call.job) IN
  /\ At(Main(w), "fetch", 3)
  /\ IF row.state = "running" /\ row.worker = Id(w)
     THEN Hold(w, call.job, row.attempt)
     ELSE UNCHANGED held
  /\ Return(Main(w))
  /\ UNCHANGED <<db, hist, budget>>

-----------------------------------------------------------------------------
(* The reads of the other calls.                                           *)

rescueSelect(j) ==
  /\ Free(Rescuer) /\ Expired(Row(j), now) /\ Spend
  /\ Prepare(Rescuer, "rescue", j, RescuedAsStarted(Row(j)))
  /\ UNCHANGED <<db, held, hist>>

beatQuery(w) ==
  /\ MayBeat(w) /\ Fenced(w)
  /\ Row(held[w].job).lease < now + Lease
  /\ Prepare(Beat(w), "beat", held[w].job, Renewed(Row(held[w].job), now))
  /\ UNCHANGED <<db, held, hist, budget>>

markQuery(w) ==
  /\ MaySettle(w) /\ Fenced(w)
  /\ Row(held[w].job).started = 0
  /\ Prepare(Main(w), "mark", held[w].job, Started(Row(held[w].job)))
  /\ UNCHANGED <<db, held, hist, budget>>

settleQuery(w, o) ==
  /\ MaySettle(w) /\ Pay(o)
  /\ IF Owns(w)
     THEN /\ Prepare(Main(w), "settle", held[w].job, Settled(Row(held[w].job), o, now))
          /\ UNCHANGED <<held, hist>>
     ELSE Drop(w) /\ hist' = Answered(w, FALSE) /\ UNCHANGED calls
  /\ UNCHANGED db

cancelQuery(j) ==
  /\ Free(Operator) /\ Spend
  /\ Row(j).state \in Pending
  /\ Prepare(Operator, "cancel", j, Cancelled(Row(j)))
  /\ UNCHANGED <<db, held, hist>>

\* A deleted job is a row in the state deleted.
deleteQuery(j) ==
  /\ Free(Operator) /\ Spend
  /\ Exists(j)
  /\ Prepare(Operator, "delete", j, [Row(j) EXCEPT !.state = "deleted"])
  /\ UNCHANGED <<db, held, hist>>

\* In whatever state, deleted included.
rescheduleQuery(j, delay) ==
  /\ Free(Operator) /\ Spend
  /\ Exists(j)
  /\ Prepare(Operator, "reschedule", j, Rescheduled(Row(j), now + delay))
  /\ UNCHANGED <<db, held, hist>>

-----------------------------------------------------------------------------
(* insertJobRow.                                                           *)

insertBeat(w) ==
  /\ At(Beat(w), "beat", 2)
  /\ db' = Merged(Beat(w))
  /\ Return(Beat(w))
  /\ UNCHANGED <<held, hist, budget>>

insertMark(w) ==
  /\ At(Main(w), "mark", 2)
  /\ db' = Merged(Main(w))
  /\ Return(Main(w))
  /\ UNCHANGED <<held, hist, budget>>

insertSettled(w) ==
  /\ At(Main(w), "settle", 2)
  /\ db' = Merged(Main(w))
  /\ hist' = IF db' = db THEN hist ELSE Answered(w, TRUE)
  /\ Drop(w)
  /\ Return(Main(w))
  /\ UNCHANGED budget

insertRescued ==
  /\ At(Rescuer, "rescue", 2)
  /\ db' = Merged(Rescuer)
  /\ Revoke(calls[Rescuer].job)
  /\ Return(Rescuer)
  /\ UNCHANGED <<hist, budget>>

insertCancelled ==
  /\ At(Operator, "cancel", 2)
  /\ db' = Merged(Operator)
  /\ hist' = [hist EXCEPT !.cancelled = @ \cup {calls[Operator].job}]
  /\ Return(Operator)
  /\ UNCHANGED <<held, budget>>

insertDeleted ==
  /\ At(Operator, "delete", 2)
  /\ db' = Merged(Operator)
  /\ Revoke(calls[Operator].job)
  /\ Return(Operator)
  /\ UNCHANGED <<hist, budget>>

insertRescheduled ==
  LET j == calls[Operator].job IN
  /\ At(Operator, "reschedule", 2)
  /\ db' = Merged(Operator)
  /\ Revoke(j)
  /\ hist' = [hist EXCEPT !.moved = @ \cup {j}, !.cancelled = @ \ {j}]
  /\ Return(Operator)
  /\ UNCHANGED budget

\* queueSetPaused: the version of the queue's row, 0 if it cannot be read, then
\* a row with the next one.  A row that is merged away is no error.
pauseQuery(paused) ==
  /\ Free(Operator) /\ db.paused # paused
  /\ \E read \in {0, db.queueVersion} :
       /\ budget' = budget - (IF read = db.queueVersion THEN 1 ELSE 2) /\ budget' >= 0
       /\ Await(Operator, "pause", 2, 0, NoRow, [paused |-> paused, version |-> read + 1], 0)
  /\ UNCHANGED <<db, held, hist>>

pauseInsert ==
  LET row == calls[Operator].arg IN
  /\ At(Operator, "pause", 2)
  /\ db' = QueueMerged(row.paused, row.version)
  /\ Return(Operator)
  /\ UNCHANGED <<held, hist, budget>>

Halves == {<<"fetch", 3>>}

Step ==
  \/ \E c \in setup.clients : \/ insertRow(c) \/ upsertSelect(c) \/ upsertInsert(c)
                              \/ \E d \in Delays : insertCheck(c, d)
  \/ \E w \in Workers :
       \/ selectCandidates(w) \/ claimInsert(w) \/ claimConfirm(w)
       \/ beatQuery(w) \/ insertBeat(w) \/ markQuery(w) \/ insertMark(w)
       \/ insertSettled(w) \/ \E o \in Outcomes : settleQuery(w, o)
  \/ \E p \in Threads : Fail(p, Halves)
  \/ insertRescued \/ insertCancelled \/ insertDeleted \/ insertRescheduled \/ pauseInsert
  \/ \E j \in Jobs : \/ rescueSelect(j) \/ cancelQuery(j) \/ deleteQuery(j)
                     \/ \E d \in Delays : rescheduleQuery(j, d)
  \/ \E paused \in BOOLEAN : pauseQuery(paused)
=============================================================================
