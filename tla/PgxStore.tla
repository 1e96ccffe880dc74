------------------------------ MODULE PgxStore ------------------------------
(***************************************************************************)
(* driver/pgxv5: every call is one statement, the claim too (one CTE with  *)
(* FOR UPDATE SKIP LOCKED).                                                *)
(***************************************************************************)
EXTENDS RowStatements

\* ON CONFLICT DO NOTHING; the duplicate is looked up by findUniqueJob.
jobInsertMany(c, delay) ==
  InsertStatement(delay, now) /\ UNCHANGED <<calls, held, hist, budget>>

\* goncordia_queues is not read: a paused queue is fetched from.
jobFetchBatch(w) == FetchStatement(w)

jobRescueStuck == RescueStatement

jobHeartbeat(w) == HeartbeatStatement(w)

jobMarkStarted(w) == MarkStartedStatement(w)

jobSetStateIfRunning(w, o) == SettleStatement(w, o)

jobCancel(j) == CancelStatement(j)

jobDelete(j) == DeleteStatement(j)

jobReschedule(j, delay) == RescheduleStatement(j, delay)

queueSetPaused(paused) == PauseStatement(paused)

Step ==
  \/ \E c \in setup.clients, d \in Delays : jobInsertMany(c, d)
  \/ \E w \in Workers :
       \/ jobFetchBatch(w) \/ jobHeartbeat(w) \/ jobMarkStarted(w)
       \/ \E o \in Outcomes : jobSetStateIfRunning(w, o)
  \/ jobRescueStuck
  \/ \E j \in Jobs : \/ jobCancel(j) \/ jobDelete(j)
                     \/ \E d \in Delays : jobReschedule(j, d)
  \/ \E paused \in BOOLEAN : queueSetPaused(paused)
=============================================================================
