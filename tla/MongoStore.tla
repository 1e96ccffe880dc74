----------------------------- MODULE MongoStore -----------------------------
(***************************************************************************)
(* driver/mongodb: operations on one document are atomic.  The pause of a  *)
(* queue is read before the claim, and a cancellation finds the document   *)
(* before it updates it.  A rescue and a yield leave started_at where it   *)
(* is; the claim removes it.                                               *)
(***************************************************************************)
EXTENDS RowStatements

\* An upsert by unique_key, under a unique index.
jobInsertMany(c, delay) ==
  InsertStatement(delay, now) /\ UNCHANGED <<calls, held, hist, budget>>

\* FindOne on the queue; when it fails the fetch goes on.
readQueue(w) ==
  /\ MayFetch(w) /\ StoppedUnlessReadFails(db.paused)
  /\ Await(Main(w), "fetch", 2, 0, NoRow, 0, 0)
  /\ UNCHANGED <<db, held, hist>>

\* FindOneAndUpdate with the state in its filter, sorted.
findOneAndUpdate(w) ==
  /\ At(Main(w), "fetch", 2)
  /\ IF FirstDue = {} THEN UNCHANGED <<db, held>>
     ELSE \E j \in FirstDue :
            /\ Row(j).attempt < MaxAttempt
            /\ db' = Put(j, Claimed(Row(j), w, now))
            /\ Hold(w, j, Row(j).attempt + 1)
  /\ Return(Main(w))
  /\ UNCHANGED <<hist, budget>>

jobRescueStuck ==
  LET stuck == {j \in Jobs : Expired(Row(j), now)} IN
  /\ Free(Rescuer) /\ stuck # {} /\ Spend
  /\ db' = [db EXCEPT !.jobs = [j \in Jobs |->
              IF j \in stuck THEN RescuedAsStarted(Row(j))
              ELSE Row(j)]]
  /\ held' = [w \in Workers |-> IF held[w].job \in stuck
                                THEN [held[w] EXCEPT !.revoked = TRUE] ELSE held[w]]
  /\ UNCHANGED <<calls, hist>>

jobHeartbeat(w) == HeartbeatStatement(w)

jobMarkStarted(w) == MarkStartedStatement(w)

\* A terminal state is preceded by a read of unique_key under the same
\* filter; no call changes the key of a running document, so the UpdateOne
\* alone decides.
jobSetStateIfRunning(w, o) ==
  LET j == held[w].job IN
  /\ MaySettle(w)
  /\ db' = IF Owns(w) THEN Put(j, [SettledKey(Row(j), o) EXCEPT !.started = Row(j).started])
           ELSE db
  /\ hist' = Answered(w, Owns(w))
  /\ Drop(w) /\ Pay(o)
  /\ UNCHANGED calls

\* jobCancel, its FindOne: a document that cannot be cancelled is refused.
cancelFind(j) ==
  /\ Free(Operator) /\ Spend
  /\ Row(j).state \in Pending
  /\ Await(Operator, "cancel", 2, j, NoRow, 0, 0)
  /\ UNCHANGED <<db, held, hist>>

\* Its UpdateOne by the same filter; the number of documents it has matched
\* is not looked at, and the call returns nil.
cancelUpdate ==
  LET j == calls[Operator].job IN
  /\ At(Operator, "cancel", 2)
  /\ db' = IF Row(j).state \in Pending
           THEN Put(j, KeyReleased(Cancelled(Row(j)))) ELSE db
  /\ hist' = [hist EXCEPT !.cancelled = @ \cup {j}]
  /\ Return(Operator)
  /\ UNCHANGED <<held, budget>>

jobDelete(j) == DeleteStatement(j)

jobReschedule(j, delay) == RescheduleStatement(j, delay)

queueSetPaused(paused) == PauseStatement(paused)

Step ==
  \/ \E c \in setup.clients, d \in Delays : jobInsertMany(c, d)
  \/ \E w \in Workers :
       \/ readQueue(w) \/ findOneAndUpdate(w)
       \/ jobHeartbeat(w) \/ jobMarkStarted(w)
       \/ \E o \in Outcomes : jobSetStateIfRunning(w, o)
  \/ jobRescueStuck \/ cancelUpdate
  \/ \E j \in Jobs : \/ cancelFind(j) \/ jobDelete(j)
                     \/ \E d \in Delays : jobReschedule(j, d)
  \/ \E paused \in BOOLEAN : queueSetPaused(paused)
=============================================================================
