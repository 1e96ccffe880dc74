----------------------------- MODULE MemoryStore -----------------------------
(***************************************************************************)
(* driver/memory: every call is one critical section of the driver's       *)
(* mutex.  A row keeps its unique key when it ends; the search for         *)
(* duplicates passes finished rows over.  JobStore models the same calls   *)
(* with the fields that pools and retries need.                            *)
(***************************************************************************)
EXTENDS RowStatements

findUniqueJob ==
  {j \in Jobs : setup.key # "none" /\ Exists(j) /\ (setup.key = "forever" \/ Active(j))}

JobInsertMany(c, delay) ==
  /\ db.seq < setup.jobs /\ findUniqueJob = {}
  /\ db' = Inserted(delay, now)
  /\ UNCHANGED <<calls, held, hist, budget>>

\* The queue is not paused; due rows become available, the first is claimed.
JobFetchBatch(w) ==
  /\ MayFetch(w) /\ ~db.paused
  /\ \E j \in FirstDue :
       /\ Row(j).attempt < MaxAttempt
       /\ db' = [db EXCEPT !.jobs = [i \in Jobs |->
                   IF i = j THEN Claimed(Row(j), w, now)
                   ELSE IF Due(Row(i)) THEN [Row(i) EXCEPT !.state = "available"]
                   ELSE Row(i)]]
       /\ Hold(w, j, Row(j).attempt + 1)
  /\ UNCHANGED <<calls, hist, budget>>

\* Of every expired claim; started_at stays.
JobRescueStuck ==
  LET stuck == {j \in Jobs : Expired(Row(j), now)} IN
  /\ Free(Rescuer) /\ stuck # {} /\ Spend
  /\ db' = [db EXCEPT !.jobs = [j \in Jobs |->
              IF j \in stuck THEN RescuedAsStarted(Row(j)) ELSE Row(j)]]
  /\ held' = [w \in Workers |-> IF held[w].job \in stuck
                                THEN [held[w] EXCEPT !.revoked = TRUE] ELSE held[w]]
  /\ UNCHANGED <<calls, hist>>

JobHeartbeat(w) == HeartbeatStatement(w)

JobMarkStarted(w) == MarkStartedStatement(w)

\* started_at stays; a claim that is not the row's gets ErrStaleClaim.
JobSetStateIfRunning(w, o) ==
  LET row == Row(held[w].job) IN
  /\ MaySettle(w)
  /\ db' = IF Owns(w)
           THEN Put(held[w].job, [Settled(row, o, now) EXCEPT !.started = row.started])
           ELSE db
  /\ hist' = Answered(w, Owns(w))
  /\ Drop(w) /\ Pay(o)
  /\ UNCHANGED calls

JobCancel(j) ==
  /\ Free(Operator) /\ Spend
  /\ Row(j).state \in Pending
  /\ db' = Put(j, Cancelled(Row(j)))
  /\ hist' = [hist EXCEPT !.cancelled = @ \cup {j}]
  /\ UNCHANGED <<calls, held>>

JobDelete(j) == DeleteStatement(j)

JobReschedule(j, delay) == RescheduleStatement(j, delay)

QueueSetPaused(paused) == PauseStatement(paused)

Step ==
  \/ \E c \in setup.clients, d \in Delays : JobInsertMany(c, d)
  \/ \E w \in Workers :
       \/ JobFetchBatch(w) \/ JobHeartbeat(w) \/ JobMarkStarted(w)
       \/ \E o \in Outcomes : JobSetStateIfRunning(w, o)
  \/ JobRescueStuck
  \/ \E j \in Jobs : \/ JobCancel(j) \/ JobDelete(j)
                     \/ \E d \in Delays : JobReschedule(j, d)
  \/ \E paused \in BOOLEAN : QueueSetPaused(paused)
=============================================================================
