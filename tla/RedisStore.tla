----------------------------- MODULE RedisStore -----------------------------
(***************************************************************************)
(* driver/redis: Lua scripts and a WATCH/MULTI transaction are single      *)
(* steps.  Cancellation, deletion and rescheduling read the document and   *)
(* then send a pipeline without MULTI, whose commands are steps of their   *)
(* own.  avail and sched are sorted sets (a member and its score), run is  *)
(* the hash of running jobs and their leases.                              *)
(***************************************************************************)
EXTENDS RowStatements

ZRem(set, j)    == {e \in set : e[1] # j}
ZAdd(set, j, s) == ZRem(set, j) \cup {<<j, s>>}
Lists(set, j)   == \E e \in set : e[1] = j

\* insertJobScript.
jobInsertMany(c, delay) ==
  LET j   == db.seq + 1
      row == NewRow(delay, now)
      new == [Put(j, row) EXCEPT !.seq = j,
                !.uniq = IF setup.key = "none" THEN 0 ELSE j] IN
  /\ db.seq < setup.jobs /\ db.uniq = 0
  /\ db' = IF row.state = "scheduled"
           THEN [new EXCEPT !.sched = ZAdd(@, j, row.runAt)]
           ELSE [new EXCEPT !.avail = ZAdd(@, j, row.runAt)]
  /\ UNCHANGED <<calls, held, hist, budget>>

-----------------------------------------------------------------------------
(* jobFetchBatch.                                                          *)

\* isQueuePaused.
readQueue(w) ==
  /\ MayFetch(w) /\ ~db.paused
  /\ Await(Main(w), "fetch", 2, 0, NoRow, 0, 0)
  /\ UNCHANGED <<db, held, hist, budget>>

\* fetchOneScript: due members of sched move to avail, scored by the run_at
\* of their documents; a member without a document stays.
Promoted ==
  LET due == {e \in db.sched : e[2] <= now /\ Exists(e[1])} IN
  [db EXCEPT !.sched = @ \ due,
             !.avail = {e \in @ : ~Lists(due, e[1])}
                       \cup {<<e[1], Row(e[1]).runAt>> : e \in due}]

\* ZPOPMIN.
First(set) ==
  {e \in set : \A f \in set : e[2] < f[2] \/ (e[2] = f[2] /\ e[1] <= f[1])}

\* The member that is popped is claimed whatever its document's state is; a
\* member without a document is lost.
fetchOneScript(w) ==
  /\ At(Main(w), "fetch", 2)
  /\ IF Promoted.avail = {} THEN db' = Promoted /\ UNCHANGED held
     ELSE \E e \in First(Promoted.avail) :
            LET j == e[1]
                popped == [Promoted EXCEPT !.avail = @ \ {e}] IN
            IF Exists(j)
            THEN /\ Row(j).attempt < MaxAttempt
                 /\ db' = [popped EXCEPT !.jobs[j] = Claimed(@, w, now),
                                         !.run = ZAdd(@, j, now + Lease)]
                 /\ Hold(w, j, Row(j).attempt + 1)
            ELSE db' = popped /\ UNCHANGED held
  /\ Return(Main(w))
  /\ UNCHANGED <<hist, budget>>

-----------------------------------------------------------------------------
(* The scripts of a claim, and the outcome.                                *)

\* Mutant: the id is taken out of the hash and not put back into avail.
rescueWithoutListing(j) ==
  /\ Free(Rescuer) /\ Lists(db.run, j) /\ Spend
  /\ Expired(Row(j), now)
  /\ db' = [Put(j, Rescued(Row(j))) EXCEPT !.run = ZRem(@, j)]
  /\ Revoke(j)
  /\ UNCHANGED <<calls, hist>>

\* rescueOneScript, for one id of the hash.
jobRescueStuck(j) ==
  /\ Free(Rescuer) /\ Lists(db.run, j) /\ Spend
  /\ \/ /\ Row(j).state # "running"
        /\ db' = [db EXCEPT !.run = ZRem(@, j)]
        /\ UNCHANGED held
     \/ /\ Expired(Row(j), now)
        /\ db' = [Put(j, Rescued(Row(j))) EXCEPT
                    !.run = ZRem(@, j), !.avail = ZAdd(@, j, Row(j).runAt)]
        /\ Revoke(j)
  /\ UNCHANGED <<calls, hist>>

\* heartbeatScript.
jobHeartbeat(w) ==
  LET j == held[w].job IN
  /\ MayBeat(w) /\ Fenced(w)
  /\ Row(j).lease < now + Lease
  /\ db' = [Put(j, Renewed(Row(j), now)) EXCEPT !.run = ZAdd(@, j, now + Lease)]
  /\ UNCHANGED <<calls, held, hist, budget>>

\* markStartedScript.
jobMarkStarted(w) ==
  /\ MaySettle(w) /\ Fenced(w)
  /\ Row(held[w].job).started = 0
  /\ db' = Put(held[w].job, Started(Row(held[w].job)))
  /\ UNCHANGED <<calls, held, hist, budget>>

\* A later retry waits in sched; everything else that is pending is in avail.
Relisted(tables, j, o) ==
  CASE o.to = "completed"                -> WithoutKey(tables, FALSE)
    [] o.to = "retry" /\ o.delay > 0     -> [tables EXCEPT !.sched = ZAdd(@, j, now + o.delay)]
    [] OTHER                             -> [tables EXCEPT !.avail = ZAdd(@, j, tables.jobs[j].runAt)]

\* The transaction is tried until the document has not changed under it; the
\* eighth failure is an error like any other (setStateFails).
jobSetStateIfRunning(w, o) ==
  LET j == held[w].job IN
  /\ MaySettle(w)
  /\ IF Owns(w)
     THEN /\ db' = Relisted([Put(j, Settled(Row(j), o, now)) EXCEPT !.run = ZRem(@, j)], j, o)
          /\ hist' = [Answered(w, TRUE) EXCEPT !.freed =
                        IF o.to = "completed" THEN Freed(j, FALSE) ELSE @]
     ELSE hist' = Answered(w, FALSE) /\ UNCHANGED db
  /\ Drop(w) /\ Pay(o)
  /\ UNCHANGED calls

-----------------------------------------------------------------------------
(* Operators.                                                              *)

\* GET; only a pending job may be cancelled.
getDocument(op, j, delay) ==
  /\ Free(Operator) /\ Spend
  /\ Exists(j) /\ (op = "cancel" => Row(j).state \in Pending)
  /\ Await(Operator, op, 2, j, Row(j), now + delay, 0)
  /\ UNCHANGED <<db, held, hist>>

\* jobCancel: the reservation (the error of whose DEL is ignored), the sorted
\* sets, the document as it was read.
cancelKey ==
  /\ At(Operator, "cancel", 2)
  /\ db' = WithoutKey(db, FALSE)
  /\ hist' = [hist EXCEPT !.freed = Freed(calls[Operator].job, FALSE)]
  /\ Goto(Operator, 3)
  /\ UNCHANGED <<held, budget>>

cancelUnlist ==
  LET j == calls[Operator].job IN
  /\ At(Operator, "cancel", 3)
  /\ db' = [db EXCEPT !.avail = ZRem(@, j), !.sched = ZRem(@, j)]
  /\ Goto(Operator, 4)
  /\ UNCHANGED <<held, hist, budget>>

cancelSet ==
  LET call == calls[Operator] IN
  /\ At(Operator, "cancel", 4)
  /\ db' = Put(call.job, Cancelled(call.row))
  /\ hist' = [hist EXCEPT !.cancelled = @ \cup {call.job}]
  /\ Return(Operator)
  /\ UNCHANGED <<held, budget>>

\* jobDelete: the document, the lookups, the reservation of any key.
deleteDocument ==
  LET j == calls[Operator].job IN
  /\ At(Operator, "delete", 2)
  /\ db' = Put(j, NoRow)
  /\ Revoke(j)
  /\ Goto(Operator, 3)
  /\ UNCHANGED <<hist, budget>>

deleteLookups ==
  LET j == calls[Operator].job IN
  /\ At(Operator, "delete", 3)
  /\ db' = [db EXCEPT !.avail = ZRem(@, j), !.sched = ZRem(@, j), !.run = ZRem(@, j)]
  /\ Goto(Operator, 4)
  /\ UNCHANGED <<held, hist, budget>>

deleteKey ==
  /\ At(Operator, "delete", 4)
  /\ db' = WithoutKey(db, TRUE)
  /\ hist' = [hist EXCEPT !.freed = Freed(calls[Operator].job, TRUE)]
  /\ Return(Operator)
  /\ UNCHANGED <<held, budget>>

\* jobReschedule: avail, sched, then the document as it was read.
rescheduleUnlist ==
  /\ At(Operator, "reschedule", 2)
  /\ db' = [db EXCEPT !.avail = ZRem(@, calls[Operator].job)]
  /\ Goto(Operator, 3)
  /\ UNCHANGED <<held, hist, budget>>

rescheduleList ==
  LET call == calls[Operator] IN
  /\ At(Operator, "reschedule", 3)
  /\ db' = [db EXCEPT !.sched = ZAdd(@, call.job, call.arg)]
  /\ Goto(Operator, 4)
  /\ UNCHANGED <<held, hist, budget>>

\* A fetch may have taken the new member of sched already: then the document
\* is pending and no set has it.
rescheduleSet ==
  LET call == calls[Operator] IN
  /\ At(Operator, "reschedule", 4)
  /\ db' = Put(call.job, Rescheduled(call.row, call.arg))
  /\ hist' = [hist EXCEPT !.moved = @ \cup {call.job}, !.cancelled = @ \ {call.job}]
  /\ Revoke(call.job)
  /\ Return(Operator)
  /\ UNCHANGED budget

queueSetPaused(paused) == PauseStatement(paused)

Halves == {"cancel", "delete", "reschedule"} \X {3, 4}

Ignored == {<<"cancel", 2, 3>>}

Step ==
  \/ \E c \in setup.clients, d \in Delays : jobInsertMany(c, d)
  \/ \E w \in Workers :
       \/ readQueue(w) \/ fetchOneScript(w) \/ jobHeartbeat(w) \/ jobMarkStarted(w)
       \/ \E o \in Outcomes : jobSetStateIfRunning(w, o)
  \/ \E j \in Jobs :
       \/ jobRescueStuck(j) \/ getDocument("cancel", j, 0) \/ getDocument("delete", j, 0)
       \/ \E d \in Delays : getDocument("reschedule", j, d)
  \/ \E p \in Threads : Fail(p, Halves) \/ FailUnseen(p, Ignored)
  \/ cancelKey \/ cancelUnlist \/ cancelSet
  \/ deleteDocument \/ deleteLookups \/ deleteKey
  \/ rescheduleUnlist \/ rescheduleList \/ rescheduleSet
  \/ \E paused \in BOOLEAN : queueSetPaused(paused)
=============================================================================
