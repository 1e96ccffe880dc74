----------------------------- MODULE DynamoStore -----------------------------
(***************************************************************************)
(* driver/dynamodb: a conditional write of one item is atomic, and so is   *)
(* TransactWriteItems, which only the insertion uses.  The claim and the   *)
(* outcome are conditional on the version that was read before; heartbeats *)
(* and start marks move that version too.                                  *)
(*                                                                         *)
(* Reads are eventually consistent.  A stale candidate, or a stale item of *)
(* a cancellation, fails the condition of the write that follows, and a    *)
(* deletion uses nothing of the item but its key; a stale item that an     *)
(* outcome is fenced by is settleGetStale.                                 *)
(***************************************************************************)
EXTENDS RowStatements

\* The clock counts half seconds.  time.RFC3339Nano writes no zeros at the end
\* of a fraction, and ".5Z" is before "Z" as text: of the two instants of a
\* second, the later one comes first.
Text(t) == IF t % 2 = 0 THEN t + 1 ELSE t - 1

\* The job and its reservation are put in one transaction.
jobInsertMany(c, delay) ==
  /\ db.seq < setup.jobs /\ db.uniq = 0
  /\ db' = [Inserted(delay, now) EXCEPT
              !.uniq = IF setup.key = "none" THEN 0 ELSE db.seq + 1]
  /\ UNCHANGED <<calls, held, hist, budget>>

-----------------------------------------------------------------------------
(* jobFetchBatch.                                                          *)

\* The query compares run_at as text; the candidates are sorted by time.
TextDue == {j \in Jobs : Row(j).state \in Pending /\ Text(Row(j).runAt) <= Text(now)}

\* The queue is not paused, or a stale item says so; the clock is read before
\* the index is queried.
queryCandidates(w) ==
  /\ MayFetch(w) /\ StoppedUnlessReadFails(db.paused)
  /\ \E j \in Earliest(TextDue) : /\ Row(j).attempt < MaxAttempt
                                  /\ Await(Main(w), "fetch", 2, j, Row(j), 0, now)
  /\ UNCHANGED <<db, held, hist>>

\* The update is conditional on version and state.
claimItem(w) ==
  LET call == calls[Main(w)]
      j    == call.job IN
  /\ At(Main(w), "fetch", 2)
  /\ IF Row(j).state \in Pending /\ Row(j).version = call.row.version
     THEN /\ db' = Put(j, Renumbered(Claimed(Row(j), w, call.at)))
          /\ Hold(w, j, call.row.attempt + 1)
     ELSE UNCHANGED <<db, held>>
  /\ Return(Main(w))
  /\ UNCHANGED <<hist, budget>>

-----------------------------------------------------------------------------
(* The conditional updates of a claim.                                     *)

\* The lease is compared as time, and as text in the condition of the update;
\* started_at stays.
jobRescueStuck(j) ==
  /\ Free(Rescuer) /\ Spend
  /\ Expired(Row(j), now) /\ Text(Row(j).lease) <= Text(now)
  /\ db' = Put(j, Renumbered(RescuedAsStarted(Row(j))))
  /\ Revoke(j)
  /\ UNCHANGED <<calls, hist>>

jobHeartbeat(w) ==
  /\ MayBeat(w) /\ Fenced(w)
  /\ Row(held[w].job).lease < now + Lease
  /\ db' = Put(held[w].job, Renumbered(Renewed(Row(held[w].job), now)))
  /\ UNCHANGED <<calls, held, hist, budget>>

jobMarkStarted(w) ==
  /\ MaySettle(w) /\ Fenced(w)
  /\ Row(held[w].job).started = 0
  /\ db' = Put(held[w].job, Renumbered(Started(Row(held[w].job))))
  /\ UNCHANGED <<calls, held, hist, budget>>

-----------------------------------------------------------------------------
(* jobSetStateIfRunning.                                                   *)

\* selectJob and the fence: a claim that is not the item's is stale.
settleGet(w, o) ==
  /\ MaySettle(w) /\ Pay(o)
  /\ IF Owns(w)
     THEN Await(Main(w), "settle", 2, held[w].job, Row(held[w].job), o, now)
          /\ UNCHANGED held
          /\ UNCHANGED hist
     ELSE Drop(w) /\ hist' = Answered(w, FALSE) /\ UNCHANGED calls
  /\ UNCHANGED db

\* GetItem, without ConsistentRead, returns the item as it was before the
\* claim: ErrStaleClaim.
settleGetStale(w) ==
  /\ MaySettle(w) /\ Spend
  /\ hist' = [Answered(w, FALSE) EXCEPT !.torn = @ \cup {<<held[w].job, "settle", 1>>}]
  /\ Drop(w)
  /\ UNCHANGED <<db, calls>>

\* Mutant: the condition compares with the version the update writes.
settleNextVersion(w) ==
  LET call == calls[Main(w)] IN
  /\ At(Main(w), "settle", 2)
  /\ IF Row(call.job).version = Renumbered(call.row).version
     THEN UNCHANGED hist /\ db' = Put(call.job, Settled(Row(call.job), call.arg, call.at))
     ELSE hist' = Answered(w, FALSE) /\ UNCHANGED db
  /\ Return(Main(w)) /\ Drop(w)
  /\ UNCHANGED budget

\* Any other version is answered with ErrStaleClaim, that of the worker's
\* own heartbeat included.
settleUpdate(w) ==
  LET call    == calls[Main(w)]
      applies == /\ Row(call.job).state = "running"
                 /\ Row(call.job).version = call.row.version IN
  /\ At(Main(w), "settle", 2)
  /\ IF applies
     THEN /\ db' = Put(call.job, Renumbered(Settled(Row(call.job), call.arg, call.at)))
          /\ IF call.arg.to = "completed" /\ setup.key = "active"
             THEN Goto(Main(w), 3) ELSE Return(Main(w))
     ELSE Return(Main(w)) /\ UNCHANGED db
  /\ hist' = Answered(w, applies)
  /\ Drop(w)
  /\ UNCHANGED budget

settleKey(w) ==
  /\ At(Main(w), "settle", 3)
  /\ db' = WithoutKey(db, FALSE)
  /\ hist' = [hist EXCEPT !.freed = Freed(calls[Main(w)].job, FALSE)]
  /\ Return(Main(w))
  /\ UNCHANGED <<held, budget>>

-----------------------------------------------------------------------------
(* Operators.                                                              *)

\* jobCancel: selectJob.
cancelGet(j) ==
  /\ Free(Operator) /\ Spend
  /\ Row(j).state \in Pending
  /\ Await(Operator, "cancel", 2, j, NoRow, 0, 0)
  /\ UNCHANGED <<db, held, hist>>

\* The update is conditional on the state; otherwise ErrConflict.
cancelUpdate ==
  LET j == calls[Operator].job IN
  /\ At(Operator, "cancel", 2)
  /\ IF Row(j).state \in Pending
     THEN /\ db' = Put(j, Renumbered(Cancelled(Row(j))))
          /\ hist' = [hist EXCEPT !.cancelled = @ \cup {j}]
          /\ IF setup.key = "active" THEN Goto(Operator, 3) ELSE Return(Operator)
     ELSE Return(Operator) /\ UNCHANGED <<db, hist>>
  /\ UNCHANGED <<held, budget>>

\* jobDelete: selectJob, then the item, then its reservation.
deleteGet(j) ==
  /\ Free(Operator) /\ Spend
  /\ Exists(j)
  /\ Await(Operator, "delete", 2, j, NoRow, 0, 0)
  /\ UNCHANGED <<db, held, hist>>

deleteItem ==
  LET j == calls[Operator].job IN
  /\ At(Operator, "delete", 2)
  /\ db' = Put(j, NoRow)
  /\ Revoke(j)
  /\ IF setup.key = "none" THEN Return(Operator) ELSE Goto(Operator, 3)
  /\ UNCHANGED <<hist, budget>>

\* The last request of a cancellation or a deletion; its error is ignored.
deleteKey(op) ==
  /\ At(Operator, op, 3)
  /\ db' = WithoutKey(db, op = "delete")
  /\ hist' = [hist EXCEPT !.freed = Freed(calls[Operator].job, op = "delete")]
  /\ Return(Operator)
  /\ UNCHANGED <<held, budget>>

\* No condition on the state.
jobReschedule(j, delay) ==
  /\ Free(Operator) /\ Spend
  /\ Exists(j)
  /\ db' = Put(j, Renumbered(Rescheduled(Row(j), now + delay)))
  /\ Revoke(j)
  /\ hist' = [hist EXCEPT !.moved = @ \cup {j}, !.cancelled = @ \ {j}]
  /\ UNCHANGED calls

queueSetPaused(paused) == PauseStatement(paused)

Halves == {<<"settle", 3>>, <<"cancel", 3>>, <<"delete", 3>>}

Step ==
  \/ \E c \in setup.clients, d \in Delays : jobInsertMany(c, d)
  \/ \E w \in Workers :
       \/ queryCandidates(w) \/ claimItem(w)
       \/ jobHeartbeat(w) \/ jobMarkStarted(w)
       \/ settleGetStale(w) \/ settleUpdate(w) \/ settleKey(w)
       \/ \E o \in Outcomes : settleGet(w, o)
  \/ \E p \in Threads : Fail(p, Halves)
  \/ cancelUpdate \/ deleteItem \/ \E op \in {"cancel", "delete"} : deleteKey(op)
  \/ \E j \in Jobs : \/ jobRescueStuck(j) \/ cancelGet(j) \/ deleteGet(j)
                     \/ \E d \in Delays : jobReschedule(j, d)
  \/ \E paused \in BOOLEAN : queueSetPaused(paused)
=============================================================================
