---------------------------- MODULE CronSchedule ----------------------------
(***************************************************************************)
(* CronScheduler instances of one LeaderName group and one durable         *)
(* periodic job: the leader lease, the stored cursor, and the jobs that    *)
(* the occurrences become.  An instance elects, reads its clock, loads the *)
(* cursor, and then enqueues and advances one occurrence at a time; it may *)
(* be overtaken, stopped or killed between any two of these calls.         *)
(***************************************************************************)
EXTENDS Integers, Sequences

CONSTANTS
  Schedulers,    \* the instances
  MaxCatchUp,    \* occurrences per tick under "all"
  ScanLimit,     \* the 100 000 iterations of tickDurable's scan
  LeaderTTL,
  StartAts,      \* values an operator gives to PeriodicJob.StartAt
  MaxTime,       \* bound on the clock
  MaxFaults,     \* bound on crashes and failed calls
  Deletable,     \* the occurrences whose jobs operators or Prune may delete
  None

ASSUME CronAssumption ==
  /\ {MaxCatchUp, ScanLimit, LeaderTTL} \subseteq Nat \ {0}
  /\ StartAts \subseteq Nat /\ None \notin Int /\ None \notin Schedulers
  /\ MaxTime \in Nat

\* core.Every, anchored at StartAt.  The unit of time is its period: every
\* instant is an occurrence, and the clock may be anywhere before the next.
Occurrences == 1..MaxTime

VARIABLES
  catchUp,   \* PeriodicJob.CatchUp: "all", "latest" or "skip"
  clock,     \* the instances' clock
  lease,     \* the leader row: owner and time left
  cursor,    \* the stored cursor, None before it is created
  jobs,      \* occurrences whose permanent unique key is held by a job row
  inserted,  \* history: jobs ever inserted per occurrence
  sch,       \* the instances
  deleted,   \* history: occurrences whose job was deleted
  faults

vars == <<catchUp, clock, lease, cursor, jobs, inserted, sch, deleted, faults>>

Resting(startAt) ==
  [phase |-> "idle", startAt |-> startAt, now |-> 0, expected |-> 0, due |-> << >>]

Down(startAt) == [Resting(startAt) EXCEPT !.phase = "down"]

Init ==
  /\ catchUp \in {"all", "latest", "skip"}
  /\ clock = 0
  /\ lease = [owner |-> None, left |-> 0]
  /\ cursor = None
  /\ jobs = {}
  /\ inserted = [o \in Occurrences |-> 0]
  /\ \E startAt \in StartAts : sch = [s \in Schedulers |-> Resting(startAt)]
  /\ deleted = {} /\ faults = 0

EndTick(s) == sch' = [sch EXCEPT ![s] = Resting(sch[s].startAt)]

-----------------------------------------------------------------------------
(* The leader lease.                                                       *)

Holds(s) == lease.owner = s /\ lease.left > 0

\* Mutant: a lease that ran out is not free.
LeaderAttemptElectNoExpiry(s) ==
  /\ lease.owner \in {s, None}
  /\ lease' = [owner |-> s, left |-> LeaderTTL]

\* LeaderAttemptElect: take a free or expired lease, renew one's own.
LeaderAttemptElect(s) ==
  /\ lease.left = 0 \/ lease.owner \in {s, None}
  /\ lease' = [owner |-> s, left |-> LeaderTTL]

\* LeaderResign, by the owner only.
LeaderResign(s) ==
  lease' = IF lease.owner = s THEN [owner |-> None, left |-> 0] ELSE lease

-----------------------------------------------------------------------------
(* tick and tickDurable.  A lost election ends the tick and changes        *)
(* nothing.                                                                *)

Elect(s) ==
  /\ sch[s].phase = "idle"
  /\ LeaderAttemptElect(s)
  /\ sch' = [sch EXCEPT ![s].phase = "elected"]
  /\ UNCHANGED <<catchUp, clock, cursor, jobs, inserted, faults, deleted>>

ReadClock(s) ==
  /\ sch[s].phase = "elected"
  /\ sch' = [sch EXCEPT ![s].phase = "load", ![s].now = clock]
  /\ UNCHANGED <<catchUp, clock, lease, cursor, jobs, inserted, faults, deleted>>

\* Mutant: the scan also takes the next occurrence after now.
ScanLengthOneMore(at, now) == IF now >= at THEN (now + 1) - at ELSE 0

\* The scan from the cursor at: the occurrences up to now, cut off by
\* MaxCatchUp under "all" and by ScanLimit.
ScanLength(at, now) ==
  LET missed == IF now > at THEN now - at ELSE 0
      cap == IF catchUp = "all" /\ MaxCatchUp < ScanLimit THEN MaxCatchUp ELSE ScanLimit
  IN IF missed < cap THEN missed ELSE cap

\* The scan ran out of iterations before it met an occurrence after now.
ScanComplete(at, now) == now < at + ScanLimit

\* CronSkipMissed passes over the latest occurrence when it is older than
\* TickInterval, which depends on how far into the period the clock is.
FirstPhases == IF catchUp = "skip" THEN {"enqueue", "advance"} ELSE {"enqueue"}

\* ScheduleCursorGetOrCreate and the scan.  A backlog above ScanLimit is only
\* reported, unless all of it is caught up with by and by.
Load(s) ==
  LET now == sch[s].now
      at == IF cursor = None THEN sch[s].startAt ELSE cursor
      n == ScanLength(at, now)
      all == [i \in 1..n |-> at + i]
      latest == at + n
  IN /\ sch[s].phase = "load"
     /\ cursor' = at
     /\ IF (catchUp # "all" /\ ~ScanComplete(at, now)) \/ n = 0
        THEN EndTick(s)
        ELSE \E phase \in FirstPhases :
               sch' = [sch EXCEPT
                 ![s].expected = at,
                 ![s].due = IF catchUp = "all" THEN all ELSE <<latest>>,
                 ![s].phase = phase]
     /\ UNCHANGED <<catchUp, clock, lease, jobs, inserted, faults, deleted>>

\* Mutant: an ordinary insert, without the permanent key.
InsertAlways(o) ==
  /\ jobs' = jobs \cup {o}
  /\ inserted' = [inserted EXCEPT ![o] = @ + 1]

\* Client.Enqueue under the occurrence's key with Forever: a job that still
\* has a row, in whatever state, absorbs the insert.
Insert(o) ==
  /\ jobs' = jobs \cup {o}
  /\ inserted' = IF o \in jobs THEN inserted ELSE [inserted EXCEPT ![o] = @ + 1]

EnqueueOccurrence(s) ==
  /\ sch[s].phase = "enqueue"
  /\ Insert(Head(sch[s].due))
  /\ sch' = [sch EXCEPT ![s].phase = "advance"]
  /\ UNCHANGED <<catchUp, clock, lease, cursor, faults, deleted>>

\* Mutant: the cursor is overwritten whatever it holds.
CursorMatchesAnything(expected) == TRUE

\* ScheduleCursorAdvance is a compare-and-swap.
CursorMatches(expected) == cursor = expected

\* The cursor moves to the occurrence; another instance's move ends the tick.
AdvanceCursor(s) ==
  LET o == Head(sch[s].due)
      rest == Tail(sch[s].due)
  IN /\ sch[s].phase = "advance"
     /\ IF CursorMatches(sch[s].expected)
        THEN /\ cursor' = o
             /\ IF rest = << >> THEN EndTick(s)
                ELSE sch' = [sch EXCEPT ![s].expected = o, ![s].due = rest,
                                        ![s].phase = "enqueue"]
        ELSE EndTick(s) /\ UNCHANGED cursor
     /\ UNCHANGED <<catchUp, clock, lease, jobs, inserted, faults, deleted>>

\* Mutant: a failed enqueue does not keep the cursor from moving.
CallFailsYetAdvances(s) ==
  /\ sch[s].phase = "enqueue"
  /\ faults < MaxFaults
  /\ sch' = [sch EXCEPT ![s].phase = "advance"]
  /\ faults' = faults + 1
  /\ UNCHANGED <<catchUp, clock, lease, cursor, jobs, inserted, deleted>>

\* A call of the tick fails.  The store may have executed an insert or an
\* advance whose answer was lost: that is the same as a failure after it.
CallFails(s) ==
  /\ sch[s].phase \in {"elected", "load", "enqueue", "advance"}
  /\ faults < MaxFaults
  /\ EndTick(s)
  /\ faults' = faults + 1
  /\ UNCHANGED <<catchUp, clock, lease, cursor, jobs, inserted, deleted>>

-----------------------------------------------------------------------------
(* Instances, operators and time.                                          *)

\* Start returns when its context ends and resigns.
Stop(s) ==
  /\ sch[s].phase = "idle"
  /\ faults < MaxFaults
  /\ LeaderResign(s)
  /\ sch' = [sch EXCEPT ![s] = Down(sch[s].startAt)]
  /\ faults' = faults + 1
  /\ UNCHANGED <<catchUp, clock, cursor, jobs, inserted, deleted>>

\* The process dies and leaves the lease behind.
Crash(s) ==
  /\ sch[s].phase # "down"
  /\ faults < MaxFaults
  /\ sch' = [sch EXCEPT ![s] = Down(sch[s].startAt)]
  /\ faults' = faults + 1
  /\ UNCHANGED <<catchUp, clock, lease, cursor, jobs, inserted, deleted>>

\* A new instance, possibly with another StartAt.
Start(s) ==
  /\ sch[s].phase = "down"
  /\ \E startAt \in StartAts : sch' = [sch EXCEPT ![s] = Resting(startAt)]
  /\ UNCHANGED <<catchUp, clock, lease, cursor, jobs, inserted, faults, deleted>>

\* JobDelete, by hand or by Maintenance.Prune: the row and its key go.
Delete(o) ==
  /\ o \in jobs \cap Deletable
  /\ o \notin deleted
  /\ jobs' = jobs \ {o}
  /\ deleted' = deleted \cup {o}
  /\ UNCHANGED <<catchUp, clock, lease, cursor, inserted, sch, faults>>

\* Time passes, for the lease also after the bound of the clock.
Tick ==
  /\ clock < MaxTime \/ lease.left > 0
  /\ clock' = IF clock < MaxTime THEN clock + 1 ELSE clock
  /\ lease' = [lease EXCEPT !.left = IF @ > 0 THEN @ - 1 ELSE 0]
  /\ UNCHANGED <<catchUp, cursor, jobs, inserted, sch, faults, deleted>>

Step(s) ==
  \/ Elect(s) \/ ReadClock(s) \/ Load(s)
  \/ EnqueueOccurrence(s) \/ AdvanceCursor(s)

Next ==
  \/ Tick
  \/ \E s \in Schedulers : Step(s) \/ CallFails(s) \/ Stop(s) \/ Crash(s) \/ Start(s)
  \/ \E o \in Occurrences : Delete(o)

Spec == Init /\ [][Next]_vars

\* Instances that run keep ticking and time passes; nobody has to restart
\* an instance.
FairSpec == Spec /\ WF_vars(Tick) /\ \A s \in Schedulers : WF_vars(Step(s))

-----------------------------------------------------------------------------
(* Properties.                                                             *)

\* The state of the group; in a tick, the occurrences still due follow the
\* expected cursor without a gap (tickDurable).
TypeOK ==
  /\ clock \in 0..MaxTime
  /\ lease.owner \in Schedulers \cup {None} /\ lease.left \in 0..LeaderTTL
  /\ cursor \in Nat \cup {None}
  /\ jobs \subseteq Occurrences
  /\ inserted \in [Occurrences -> Nat]
  /\ \A s \in Schedulers :
       /\ sch[s].phase \in {"idle", "down", "elected", "load", "enqueue", "advance"}
       /\ sch[s].now \in 0..clock
       /\ (sch[s].phase \in {"enqueue", "advance"}) =>
            /\ sch[s].due # << >>
            /\ \A i \in DOMAIN sch[s].due :
                 sch[s].due[i] \in (sch[s].expected + 1)..sch[s].now

\* "leader failover or a crash between enqueue and cursor advancement cannot
\* duplicate" an occurrence: each becomes at most one job, however elections,
\* crashes and stale leaders interleave with enqueueOccurrence.  Only deleting
\* the job, and its key with it, makes room for a second one.
OncePerOccurrence ==
  \A o \in Occurrences : o \notin deleted => inserted[o] <= 1

\* Under CronCatchUpAll the cursor never passes an occurrence that was not
\* enqueued, even when a failed call or a crash leaves a tick half done:
\* tickDurable enqueues before it advances, and advances by compare-and-swap.
NothingSkipped ==
  (catchUp = "all" /\ cursor # None) =>
    \A o \in Occurrences :
      (o <= cursor /\ \A startAt \in StartAts : o > startAt) => inserted[o] >= 1

\* The stored cursor never moves back, so a stale leader cannot make the
\* group repeat occurrences (ScheduleCursorAdvance).
CursorNeverRewinds ==
  [][cursor # None => (cursor' # None /\ cursor' >= cursor)]_vars

\* As long as some instance stays up, CronCatchUpAll enqueues every occurrence
\* after the first cursor, through failovers and with at most MaxCatchUp per
\* tick.
EveryOccurrenceEnqueued ==
  (catchUp = "all" /\ <>[](\E s \in Schedulers : sch[s].phase # "down")) =>
    \A o \in Occurrences :
      (\A startAt \in StartAts : o > startAt) => <>(inserted[o] >= 1)
=============================================================================
