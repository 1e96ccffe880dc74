---------------------------- MODULE RowStatements ----------------------------
(***************************************************************************)
(* The calls of the Executor contract that a driver makes in one atomic    *)
(* statement on one row: a conditional UPDATE or DELETE in SQL, an         *)
(* UpdateOne in MongoDB.  A statement whose condition no row satisfies     *)
(* changes nothing; the caller is told, and it is no step.                 *)
(*                                                                         *)
(* The unique key is a column with a unique index, cleared when a job      *)
(* with an active-only key ends.                                           *)
(***************************************************************************)
EXTENDS BackendBase

\* The unique index refuses a second row with the key.
KeyTaken == setup.key # "none" /\ \E i \in Jobs : Exists(i) /\ Row(i).key = setup.key

\* The insertion of the next job, by a call that read the clock at instant at.
Inserted(delay, at) == [Put(db.seq + 1, NewRow(delay, at)) EXCEPT !.seq = @ + 1]

InsertStatement(delay, at) ==
  /\ db.seq < setup.jobs
  /\ ~KeyTaken
  /\ db' = Inserted(delay, at)

\* Mutant: the claim does not ask for the state.
FetchStatementAnyState(w) ==
  /\ MayFetch(w)
  /\ \E j \in Jobs :
       /\ Active(j) /\ Row(j).runAt <= now /\ Row(j).attempt < MaxAttempt
       /\ db' = Put(j, Claimed(Row(j), w, now))
       /\ Hold(w, j, Row(j).attempt + 1)
  /\ UNCHANGED <<calls, hist, budget>>

\* The first due job is claimed where it is found.
FetchStatement(w) ==
  /\ MayFetch(w)
  /\ \E j \in FirstDue :
       /\ Row(j).attempt < MaxAttempt
       /\ db' = Put(j, Claimed(Row(j), w, now))
       /\ Hold(w, j, Row(j).attempt + 1)
  /\ UNCHANGED <<calls, hist, budget>>

HeartbeatStatement(w) ==
  /\ MayBeat(w) /\ Fenced(w)
  /\ Row(held[w].job).lease < now + Lease
  /\ db' = Put(held[w].job, Renewed(Row(held[w].job), now))
  /\ UNCHANGED <<calls, held, hist, budget>>

MarkStartedStatement(w) ==
  /\ MaySettle(w) /\ Fenced(w)
  /\ Row(held[w].job).started = 0
  /\ db' = Put(held[w].job, Started(Row(held[w].job)))
  /\ UNCHANGED <<calls, held, hist, budget>>

\* The row after an outcome, its key column included.
SettledKey(row, o) ==
  IF o.to = "completed" THEN KeyReleased(Settled(row, o, now)) ELSE Settled(row, o, now)

\* A claim that is not the row's gets ErrStaleClaim.
SettleStatement(w, o) ==
  /\ MaySettle(w)
  /\ db' = IF Owns(w) THEN Put(held[w].job, SettledKey(Row(held[w].job), o)) ELSE db
  /\ hist' = Answered(w, Owns(w))
  /\ Drop(w) /\ Pay(o)
  /\ UNCHANGED calls

\* Every claim whose lease has run out.
RescueStatement ==
  LET stuck == {j \in Jobs : Expired(Row(j), now)} IN
  /\ Free(Rescuer) /\ stuck # {} /\ Spend
  /\ db' = [db EXCEPT !.jobs = [j \in Jobs |->
              IF j \in stuck THEN Rescued(Row(j)) ELSE Row(j)]]
  /\ held' = [w \in Workers |-> IF held[w].job \in stuck
                                THEN [held[w] EXCEPT !.revoked = TRUE] ELSE held[w]]
  /\ UNCHANGED <<calls, hist>>

CancelStatement(j) ==
  /\ Free(Operator) /\ Spend
  /\ Row(j).state \in Pending
  /\ db' = Put(j, KeyReleased(Cancelled(Row(j))))
  /\ hist' = [hist EXCEPT !.cancelled = @ \cup {j}]
  /\ UNCHANGED <<calls, held>>

DeleteStatement(j) ==
  /\ Free(Operator) /\ Spend
  /\ Exists(j)
  /\ db' = Put(j, NoRow)
  /\ Revoke(j)
  /\ UNCHANGED <<calls, hist>>

\* No condition on the state: running and finished jobs are scheduled too.
RescheduleStatement(j, delay) ==
  /\ Free(Operator) /\ Spend
  /\ Exists(j)
  /\ db' = Put(j, Rescheduled(Row(j), now + delay))
  /\ Revoke(j)
  /\ hist' = [hist EXCEPT !.moved = @ \cup {j}, !.cancelled = @ \ {j}]
  /\ UNCHANGED calls

PauseStatement(paused) ==
  /\ Free(Operator) /\ Spend
  /\ db.paused # paused
  /\ db' = [db EXCEPT !.paused = paused]
  /\ UNCHANGED <<calls, held, hist>>
=============================================================================
