--------------------------- MODULE FirestoreStore ---------------------------
(***************************************************************************)
(* driver/firestore: RunTransaction retries until what it has read is      *)
(* still there when it commits, so a transaction is one step.  A fetch     *)
(* reads the queue, queries candidates, and claims one in a transaction of *)
(* its own; a candidate that is gone is as good as a fetch that starts     *)
(* over.  JobDelete is three requests without a transaction.               *)
(***************************************************************************)
EXTENDS RowStatements

\* The reservation and the job are created in one transaction.
jobInsertMany(c, delay) ==
  /\ db.seq < setup.jobs /\ db.uniq = 0
  /\ db' = [Inserted(delay, now) EXCEPT !.uniq = IF setup.key = "none" THEN 0 ELSE db.seq + 1]
  /\ UNCHANGED <<calls, held, hist, budget>>

-----------------------------------------------------------------------------
(* jobFetchBatch.                                                          *)

\* The queue is not paused, or its document cannot be read; the query returns
\* the jobs as they are.
queryCandidates(w) ==
  /\ MayFetch(w) /\ StoppedUnlessReadFails(db.paused)
  /\ \E j \in FirstDue : /\ Row(j).attempt < MaxAttempt
                         /\ Await(Main(w), "fetch", 2, j, Row(j), 0, 0)
  /\ UNCHANGED <<db, held, hist>>

\* Mutant: the transaction does not look at the state again.
claimWithoutState(w) ==
  LET j == calls[Main(w)].job IN
  /\ At(Main(w), "fetch", 2) /\ Exists(j)
  /\ db' = Put(j, Claimed(Row(j), w, now))
  /\ Hold(w, j, calls[Main(w)].row.attempt + 1)
  /\ Return(Main(w))
  /\ UNCHANGED <<hist, budget>>

\* The transaction looks at the state again and increments attempt_num; the
\* row it returns counts from the candidate it was queried as.
claimCandidate(w) ==
  LET j == calls[Main(w)].job IN
  /\ At(Main(w), "fetch", 2)
  /\ IF Row(j).state \in Pending
     THEN /\ db' = Put(j, Claimed(Row(j), w, now))
          /\ Hold(w, j, calls[Main(w)].row.attempt + 1)
     ELSE UNCHANGED <<db, held>>
  /\ Return(Main(w))
  /\ UNCHANGED <<hist, budget>>

-----------------------------------------------------------------------------
(* The transactions.                                                       *)

\* One transaction for every running document of a query.
jobRescueStuck(j) ==
  /\ Free(Rescuer) /\ Expired(Row(j), now) /\ Spend
  /\ db' = Put(j, Rescued(Row(j)))
  /\ Revoke(j)
  /\ UNCHANGED <<calls, hist>>

jobHeartbeat(w) == HeartbeatStatement(w)

jobMarkStarted(w) == MarkStartedStatement(w)

\* A document that does not exist any more is no error.
jobSetStateIfRunning(w, o) ==
  LET j     == held[w].job
      final == o.to = "completed" IN
  /\ MaySettle(w)
  /\ IF Owns(w)
     THEN /\ db' = IF final THEN WithoutKey(Put(j, Settled(Row(j), o, now)), FALSE)
                   ELSE Put(j, Settled(Row(j), o, now))
          /\ hist' = [Answered(w, TRUE) EXCEPT !.freed =
                        IF final THEN Freed(j, FALSE) ELSE @]
     ELSE /\ hist' = IF Exists(j) THEN Answered(w, FALSE) ELSE hist
          /\ UNCHANGED db
  /\ Drop(w) /\ Pay(o)
  /\ UNCHANGED calls

jobCancel(j) ==
  /\ Free(Operator) /\ Spend
  /\ Row(j).state \in Pending
  /\ db' = WithoutKey(Put(j, Cancelled(Row(j))), FALSE)
  /\ hist' = [hist EXCEPT !.cancelled = @ \cup {j}, !.freed = Freed(j, FALSE)]
  /\ UNCHANGED <<calls, held>>

jobReschedule(j, delay) == RescheduleStatement(j, delay)

queueSetPaused(paused) == PauseStatement(paused)

-----------------------------------------------------------------------------
(* jobDelete.                                                              *)

deleteGet(j) ==
  /\ Free(Operator) /\ Spend
  /\ Exists(j)
  /\ Await(Operator, "delete", 2, j, NoRow, 0, 0)
  /\ UNCHANGED <<db, held, hist>>

deleteJob ==
  LET j == calls[Operator].job IN
  /\ At(Operator, "delete", 2)
  /\ db' = Put(j, NoRow)
  /\ Revoke(j)
  /\ IF setup.key = "none" THEN Return(Operator) ELSE Goto(Operator, 3)
  /\ UNCHANGED <<hist, budget>>

deleteKey ==
  /\ At(Operator, "delete", 3)
  /\ db' = WithoutKey(db, TRUE)
  /\ hist' = [hist EXCEPT !.freed = Freed(calls[Operator].job, TRUE)]
  /\ Return(Operator)
  /\ UNCHANGED <<held, budget>>

Halves == {<<"delete", 3>>}

Step ==
  \/ \E c \in setup.clients, d \in Delays : jobInsertMany(c, d)
  \/ \E w \in Workers :
       \/ queryCandidates(w) \/ claimCandidate(w)
       \/ jobHeartbeat(w) \/ jobMarkStarted(w)
       \/ \E o \in Outcomes : jobSetStateIfRunning(w, o)
  \/ deleteJob \/ deleteKey \/ \E p \in Threads : Fail(p, Halves)
  \/ \E j \in Jobs : \/ jobRescueStuck(j) \/ jobCancel(j) \/ deleteGet(j)
                     \/ \E d \in Delays : jobReschedule(j, d)
  \/ \E paused \in BOOLEAN : queueSetPaused(paused)
=============================================================================
