--------------------------- MODULE CassandraStore ---------------------------
(***************************************************************************)
(* driver/cassandra: a lightweight transaction (IF ...) on one row is      *)
(* atomic, and every other request is a step of its own.  avail is         *)
(* goncordia_jobs_avail, clustered by run_at and id; run is                *)
(* goncordia_jobs_running, clustered by the lease and id; uniq is          *)
(* goncordia_uniq_v2.  A fetch finds a job only through avail, a rescue    *)
(* only through run.                                                       *)
(***************************************************************************)
EXTENDS RowStatements

\* A lookup entry is deleted.  If it was the one the row needs, the job is
\* unlisted from now on; torn remembers the request that did it.
Needs(row, table, e) ==
  \/ table = "avail" /\ row.state \in Pending /\ row.runAt = e[2]
  \/ table = "run" /\ row.state = "running" /\ row.lease = e[2]

Unlists(p, table, e) ==
  hist' = [hist EXCEPT !.torn = IF Needs(Row(e[1]), table, e) THEN TornHere(p) ELSE @]

\* An entry is written for a run_at that is not the row's any more: the job may
\* be found before it is due.
Mislists(p, runAt) ==
  hist' = [hist EXCEPT !.torn =
    IF Exists(calls[p].job) /\ Row(calls[p].job).runAt # runAt THEN TornHere(p) ELSE @]

-----------------------------------------------------------------------------
(* jobInsertMany.                                                          *)

\* INSERT IF NOT EXISTS into the unique-key table.
insertKey(c, delay) ==
  /\ Free(Caller(c)) /\ db.seq < setup.jobs /\ db.uniq = 0
  /\ db' = [db EXCEPT !.seq = @ + 1, !.uniq = IF setup.key = "none" THEN 0 ELSE db.seq + 1]
  /\ Await(Caller(c), "insert", 2, db.seq + 1, NoRow, delay, now)
  /\ UNCHANGED <<held, hist, budget>>

insertJob(c) ==
  LET call == calls[Caller(c)] IN
  /\ At(Caller(c), "insert", 2)
  /\ db' = Put(call.job, NewRow(call.arg, call.at))
  /\ Goto(Caller(c), 3)
  /\ UNCHANGED <<held, hist, budget>>

\* The row of the queue is written last; without it the job is there all the
\* same, and a queue without a row is not paused.
insertAvail(c) ==
  LET call == calls[Caller(c)] IN
  /\ At(Caller(c), "insert", 3)
  /\ db' = [db EXCEPT !.avail = @ \cup {<<call.job, call.at + call.arg>>}]
  /\ Return(Caller(c))
  /\ UNCHANGED <<held, hist, budget>>

\* A request fails: without its entry the row goes, without its row the
\* reservation.
insertError(c) ==
  /\ Spend
  /\ \/ At(Caller(c), "insert", 2) /\ Goto(Caller(c), 5)
     \/ At(Caller(c), "insert", 3) /\ Goto(Caller(c), 4)
  /\ UNCHANGED <<db, held, hist>>

undoJob(c) ==
  /\ At(Caller(c), "insert", 4)
  /\ db' = Put(calls[Caller(c)].job, NoRow)
  /\ Goto(Caller(c), 5)
  /\ UNCHANGED <<held, hist, budget>>

\* Mutant: the reservation stays when the row cannot be written.
undoKeyNot(c) ==
  /\ At(Caller(c), "insert", 5)
  /\ Return(Caller(c))
  /\ UNCHANGED <<db, held, hist, budget>>

undoKey(c) ==
  /\ At(Caller(c), "insert", 5)
  /\ db' = [db EXCEPT !.uniq = 0]
  /\ Return(Caller(c))
  /\ UNCHANGED <<held, hist, budget>>

-----------------------------------------------------------------------------
(* jobFetchBatch.                                                          *)

\* The first due entry of avail.
Candidates ==
  LET due == {e \in db.avail : e[2] <= now} IN
  {e \in due : \A f \in due : e[2] < f[2] \/ (e[2] = f[2] /\ e[1] <= f[1])}

\* The queue is not paused; the entry, and the row it points to.
selectCandidate(w) ==
  /\ MayFetch(w) /\ ~db.paused
  /\ \E e \in Candidates :
       IF Row(e[1]).state \in Pending
       THEN /\ Row(e[1]).attempt < MaxAttempt
            /\ Await(Main(w), "fetch", 3, e[1], Row(e[1]), e, now)
       ELSE Await(Main(w), "fetch", 6, e[1], NoRow, e, 0)
  /\ UNCHANGED <<db, held, hist, budget>>

\* The claim is conditional on state and version, not on run_at.
claimLWT(w) ==
  LET call == calls[Main(w)] IN
  /\ At(Main(w), "fetch", 3)
  /\ IF Row(call.job).state \in Pending /\ Row(call.job).version = call.row.version
     THEN /\ db' = Put(call.job, Renumbered(Claimed(Row(call.job), w, call.at)))
          /\ Hold(w, call.job, call.row.attempt + 1)
          /\ Goto(Main(w), 4)
     ELSE Return(Main(w)) /\ UNCHANGED <<db, held>>
  /\ UNCHANGED <<hist, budget>>

claimTrack(w) ==
  LET call == calls[Main(w)] IN
  /\ At(Main(w), "fetch", 4)
  /\ db' = [db EXCEPT !.run = @ \cup {<<call.job, call.at + Lease>>}]
  /\ Goto(Main(w), 5)
  /\ UNCHANGED <<held, hist, budget>>

\* The entry of avail goes last; the fetch returns the row it has claimed, also
\* when the entry stays because the request fails (Ignored).
claimUnlist(w) ==
  LET call == calls[Main(w)] IN
  /\ At(Main(w), "fetch", 5)
  /\ db' = [db EXCEPT !.avail = @ \ {call.arg}]
  /\ Unlists(Main(w), "avail", call.arg)
  /\ Return(Main(w))
  /\ UNCHANGED <<held, budget>>

\* An entry whose row was gone or not pending is deleted as stale.
deleteStaleEntry(w) ==
  /\ At(Main(w), "fetch", 6)
  /\ db' = [db EXCEPT !.avail = @ \ {calls[Main(w)].arg}]
  /\ Unlists(Main(w), "avail", calls[Main(w)].arg)
  /\ Return(Main(w))
  /\ UNCHANGED <<held, budget>>

-----------------------------------------------------------------------------
(* jobRescueStuck, for one entry of run.                                   *)

rescueSelect(e) ==
  LET row == Row(e[1]) IN
  /\ Free(Rescuer) /\ e[2] <= now /\ Spend
  /\ \/ /\ row.state # "running"
        /\ db' = [db EXCEPT !.run = @ \ {e}]
        /\ UNCHANGED calls
     \/ /\ Expired(row, now)
        /\ Await(Rescuer, "rescue", 2, e[1], row, e, 0)
        /\ UNCHANGED db
  /\ UNCHANGED <<held, hist>>

\* Conditional on state and version; started_at stays.
rescueLWT ==
  LET call == calls[Rescuer] IN
  /\ At(Rescuer, "rescue", 2)
  /\ IF Row(call.job).state = "running" /\ Row(call.job).version = call.row.version
     THEN /\ db' = Put(call.job, Renumbered(RescuedAsStarted(Row(call.job))))
          /\ Revoke(call.job)
          /\ Goto(Rescuer, 3)
     ELSE Goto(Rescuer, 4) /\ UNCHANGED <<db, held>>
  /\ UNCHANGED <<hist, budget>>

rescueList ==
  LET call == calls[Rescuer] IN
  /\ At(Rescuer, "rescue", 3)
  /\ db' = [db EXCEPT !.avail = @ \cup {<<call.job, call.row.runAt>>}]
  /\ Mislists(Rescuer, call.row.runAt)
  /\ Goto(Rescuer, 4)
  /\ UNCHANGED <<held, budget>>

rescueUntrack ==
  LET call == calls[Rescuer] IN
  /\ At(Rescuer, "rescue", 4)
  /\ db' = [db EXCEPT !.run = @ \ {call.arg}]
  /\ Unlists(Rescuer, "run", call.arg)
  /\ Return(Rescuer)
  /\ UNCHANGED <<held, budget>>

-----------------------------------------------------------------------------
(* jobHeartbeat: the new entry, the lease, then the old entry.             *)

beatSelect(w) ==
  /\ MayBeat(w) /\ Fenced(w)
  /\ Row(held[w].job).lease < now + Lease
  /\ Await(Beat(w), "beat", 2, held[w].job, Row(held[w].job), 0, now)
  /\ UNCHANGED <<db, held, hist, budget>>

beatTrack(w) ==
  LET call == calls[Beat(w)] IN
  /\ At(Beat(w), "beat", 2)
  /\ db' = [db EXCEPT !.run = @ \cup {<<call.job, call.at + Lease>>}]
  /\ Goto(Beat(w), 3)
  /\ UNCHANGED <<held, hist, budget>>

beatLWT(w) ==
  LET call == calls[Beat(w)]
      row  == Row(call.job) IN
  /\ At(Beat(w), "beat", 3)
  /\ IF Matches(row, call.row) /\ row.version = call.row.version
     THEN db' = Put(call.job, Renumbered(Renewed(row, call.at))) /\ Goto(Beat(w), 4)
     ELSE Goto(Beat(w), 5) /\ UNCHANGED db
  /\ UNCHANGED <<held, hist, budget>>

\* Step 4 deletes the old entry, step 5 the new one.
beatUntrack(w, step) ==
  LET call == calls[Beat(w)]
      e    == <<call.job, IF step = 4 THEN call.row.lease ELSE call.at + Lease>> IN
  /\ At(Beat(w), "beat", step)
  /\ db' = [db EXCEPT !.run = @ \ {e}]
  /\ Unlists(Beat(w), "run", e)
  /\ Return(Beat(w))
  /\ UNCHANGED <<held, budget>>

\* Conditional on the claim; the version stays.
jobMarkStarted(w) == MarkStartedStatement(w)

-----------------------------------------------------------------------------
(* jobSetStateIfRunning: the row, the entry of run, then the entry of      *)
(* avail or the reservation.                                               *)

settleSelect(w, o) ==
  /\ MaySettle(w) /\ Pay(o)
  /\ IF Owns(w)
     THEN Await(Main(w), "settle", 2, held[w].job, Row(held[w].job), o, now)
          /\ UNCHANGED <<held, hist>>
     ELSE Drop(w) /\ hist' = Answered(w, FALSE) /\ UNCHANGED calls
  /\ UNCHANGED db

\* Any other version is answered with ErrStaleClaim, that of the worker's
\* own heartbeat included.
settleLWT(w) ==
  LET call    == calls[Main(w)]
      row     == Row(call.job)
      applied == row.state = "running" /\ row.version = call.row.version IN
  /\ At(Main(w), "settle", 2)
  /\ IF applied
     THEN db' = Put(call.job, Renumbered(Settled(row, call.arg, call.at))) /\ Goto(Main(w), 3)
     ELSE Return(Main(w)) /\ UNCHANGED db
  /\ hist' = Answered(w, applied)
  /\ Drop(w)
  /\ UNCHANGED budget

\* deleteRunningLookup.
settleUntrack(w) ==
  LET call == calls[Main(w)]
      e    == <<call.job, call.row.lease>> IN
  /\ At(Main(w), "settle", 3)
  /\ db' = [db EXCEPT !.run = @ \ {e}]
  /\ Unlists(Main(w), "run", e)
  /\ IF call.arg.to = "completed" /\ setup.key # "active"
     THEN Return(Main(w)) ELSE Goto(Main(w), 4)
  /\ UNCHANGED <<held, budget>>

settleList(w) ==
  LET call  == calls[Main(w)]
      runAt == Settled(call.row, call.arg, call.at).runAt IN
  /\ At(Main(w), "settle", 4)
  /\ IF call.arg.to = "completed"
     THEN /\ db' = WithoutKey(db, FALSE)
          /\ hist' = [hist EXCEPT !.freed = Freed(call.job, FALSE)]
     ELSE db' = [db EXCEPT !.avail = @ \cup {<<call.job, runAt>>}] /\ Mislists(Main(w), runAt)
  /\ Return(Main(w))
  /\ UNCHANGED <<held, budget>>

-----------------------------------------------------------------------------
(* Operators.                                                              *)

\* selectJob; only a pending job may be cancelled.  The id of a job is known
\* once its insertion has returned.
operatorSelect(op, j, delay) ==
  /\ Free(Operator) /\ Spend
  /\ \A c \in Clients : calls[Caller(c)].job # j
  /\ Exists(j) /\ (op = "cancel" => Row(j).state \in Pending)
  /\ Await(Operator, op, 2, j, Row(j), now + delay, 0)
  /\ UNCHANGED <<db, held, hist>>

\* jobCancel: conditional on the state; otherwise ErrConflict.
cancelLWT ==
  LET j == calls[Operator].job IN
  /\ At(Operator, "cancel", 2)
  /\ IF Row(j).state \in Pending
     THEN /\ db' = Put(j, Renumbered(Cancelled(Row(j))))
          /\ hist' = [hist EXCEPT !.cancelled = @ \cup {j}]
          /\ Goto(Operator, 3)
     ELSE Return(Operator) /\ UNCHANGED <<db, hist>>
  /\ UNCHANGED <<held, budget>>

deleteJob ==
  LET j == calls[Operator].job IN
  /\ At(Operator, "delete", 2)
  /\ db' = Put(j, NoRow)
  /\ Revoke(j)
  /\ Goto(Operator, 3)
  /\ UNCHANGED <<hist, budget>>

\* jobReschedule has no condition, and writes no entry at the new run_at.
rescheduleUpdate ==
  LET call == calls[Operator] IN
  /\ At(Operator, "reschedule", 2)
  /\ db' = Put(call.job, Renumbered(Rescheduled(Row(call.job), call.arg)))
  /\ hist' = [hist EXCEPT !.moved = @ \cup {call.job}, !.cancelled = @ \ {call.job}]
  /\ Revoke(call.job)
  /\ Goto(Operator, 3)
  /\ UNCHANGED budget

\* The entry of avail goes if the row was available when it was read.
operatorUnlist(op) ==
  LET call == calls[Operator]
      e    == <<call.job, call.row.runAt>> IN
  /\ At(Operator, op, 3)
  /\ IF call.row.state = "available"
     THEN db' = [db EXCEPT !.avail = @ \ {e}] /\ Unlists(Operator, "avail", e)
     ELSE UNCHANGED <<db, hist>>
  /\ IF op = "reschedule" THEN Return(Operator) ELSE Goto(Operator, 4)
  /\ UNCHANGED <<held, budget>>

operatorKey(op) ==
  /\ At(Operator, op, 4)
  /\ db' = WithoutKey(db, op = "delete")
  /\ hist' = [hist EXCEPT !.freed = Freed(calls[Operator].job, op = "delete")]
  /\ Return(Operator)
  /\ UNCHANGED <<held, budget>>

queueSetPaused(paused) == PauseStatement(paused)

Halves ==
  ({"insert"} \X (2..5)) \cup ({"fetch"} \X (4..5)) \cup ({"beat"} \X (3..5))
  \cup ({"rescue", "settle", "cancel", "delete"} \X (3..4)) \cup {<<"reschedule", 3>>}

\* Deletions whose error is ignored, where something follows or is returned.
Ignored == {<<"insert", 4, 5>>, <<"fetch", 5, 0>>, <<"cancel", 3, 4>>, <<"delete", 3, 4>>}

Step ==
  \/ \E c \in setup.clients : \/ insertJob(c) \/ insertAvail(c)
                              \/ insertError(c) \/ undoJob(c) \/ undoKey(c)
                              \/ \E d \in Delays : insertKey(c, d)
  \/ \E w \in Workers :
       \/ selectCandidate(w) \/ claimLWT(w) \/ claimTrack(w)
       \/ claimUnlist(w) \/ deleteStaleEntry(w)
       \/ beatSelect(w) \/ beatTrack(w) \/ beatLWT(w)
       \/ \E step \in 4..5 : beatUntrack(w, step)
       \/ jobMarkStarted(w)
       \/ settleLWT(w) \/ settleUntrack(w) \/ settleList(w)
       \/ \E o \in Outcomes : settleSelect(w, o)
  \/ \E p \in Threads : Fail(p, Halves) \/ FailUnseen(p, Ignored)
  \/ rescueLWT \/ rescueList \/ rescueUntrack
  \/ \E e \in db.run : rescueSelect(e)
  \/ \E j \in Jobs : \/ operatorSelect("cancel", j, 0) \/ operatorSelect("delete", j, 0)
                     \/ \E d \in Delays : operatorSelect("reschedule", j, d)
  \/ cancelLWT \/ deleteJob \/ rescheduleUpdate
  \/ \E op \in {"cancel", "delete", "reschedule"} : operatorUnlist(op)
  \/ \E op \in {"cancel", "delete"} : operatorKey(op)
  \/ \E paused \in BOOLEAN : queueSetPaused(paused)
=============================================================================
