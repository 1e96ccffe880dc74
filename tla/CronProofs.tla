----------------------------- MODULE CronProofs -----------------------------
(* Proofs about CronSchedule, for any number of instances and any bounds.  *)
EXTENDS CronSchedule, SequenceTheorems, TLAPS

-----------------------------------------------------------------------------
(* The inductive invariant.                                                *)

Phases == {"idle", "down", "elected", "load", "enqueue", "advance"}

Ticks == [phase : Phases, startAt : StartAts, now : Int, expected : Int, due : Seq(Int)]

Busy(r) == r.phase \in {"enqueue", "advance"}

\* A tick works on the occurrences after the cursor it expects: on all of
\* them in order, or on one.
Prepared(r) ==
  /\ r.due # << >> /\ r.expected \in Nat
  /\ catchUp = "all" => \A i \in 1..Len(r.due) : r.due[i] = r.expected + i
  /\ catchUp # "all" => Len(r.due) = 1 /\ r.due[1] > r.expected

\* Under CronCatchUpAll the cursor advances to an occurrence with a job.
Enqueued(r) ==
  (catchUp = "all" /\ r.phase = "advance" /\ Head(r.due) \in Occurrences) =>
    inserted[Head(r.due)] >= 1

CronTypes ==
  /\ cursor \in Nat \cup {None}
  /\ inserted \in [Occurrences -> Nat]
  /\ sch \in [Schedulers -> Ticks]
  /\ clock \in Int

TickInv(s) ==
  Busy(sch[s]) => Prepared(sch[s]) /\ Enqueued(sch[s]) /\ cursor # None

JobsInserted == \A o \in Occurrences : o \in jobs => inserted[o] >= 1

CronInv ==
  /\ CronTypes
  /\ JobsInserted
  /\ \A s \in Schedulers : TickInv(s)
  /\ NothingSkipped

\* The record of an instance that is between two ticks, or down, is typed
\* and has nothing to do (tick returns).
LEMMA RestingType ==
  ASSUME NEW n \in StartAts
  PROVE  /\ Resting(n) \in Ticks /\ ~Busy(Resting(n))
         /\ Down(n) \in Ticks /\ ~Busy(Down(n))
  <1>1. << >> \in Seq(Int) OBVIOUS
  <1>2. Resting(n) \in Ticks BY <1>1 DEF Resting, Ticks, Phases
  <1>3. Down(n) \in Ticks BY Zenon, <1>2 DEF Down, Ticks, Phases
  <1>q. QED BY Zenon, <1>2, <1>3 DEF Resting, Down, Busy, Ticks

\* The record that a tick leaves between two calls is typed (tickDurable).
LEMMA TickUpdateType ==
  ASSUME NEW t \in Ticks, NEW e \in Int, NEW d \in Seq(Int), NEW phase \in Phases
  PROVE  [t EXCEPT !.expected = e, !.due = d, !.phase = phase] \in Ticks
  <1> DEFINE r == [t EXCEPT !.expected = e, !.due = d, !.phase = phase]
  <1>1. r.expected \in Int /\ r.due \in Seq(Int) /\ r.phase \in Phases
    BY Zenon DEF Ticks
  <1>2. r.startAt \in StartAts /\ r.now \in Int
    BY Zenon DEF Ticks
  <1>q. QED BY Zenon, <1>1, <1>2 DEF Ticks

\* A group that has not loaded its cursor yet has skipped nothing.
LEMMA InitInv == Init => CronInv
  <1> SUFFICES ASSUME Init PROVE CronInv BY Zenon
  <1>1. PICK n \in StartAts : sch = [s \in Schedulers |-> Resting(n)]
    BY Zenon DEF Init
  <1>3. CronTypes BY <1>1, RestingType DEF Init, CronTypes
  <1>4. \A s \in Schedulers : ~Busy(sch[s]) BY Zenon, <1>1, RestingType
  <1>q. QED BY Zenon, <1>3, <1>4 DEF Init, CronInv, NothingSkipped, TickInv, JobsInserted

\* A step that leaves cursor and inserts alone and turns no instance busy
\* keeps the invariant (elections, the clock, failures, crashes, restarts).
LEMMA QuietStep ==
  ASSUME CronInv, NEW s \in Schedulers, NEW r \in Ticks, ~Busy(r),
         sch' = [sch EXCEPT ![s] = r],
         UNCHANGED <<catchUp, cursor, inserted, jobs, clock>>
  PROVE  CronInv'
  <1>1. CronTypes' BY Zenon DEF CronInv, CronTypes
  <1>2. ASSUME NEW t \in Schedulers, Busy(sch'[t])
        PROVE  sch'[t] = sch[t]
    BY Zenon, <1>2 DEF CronInv, CronTypes
  <1>3. ASSUME NEW t \in Schedulers PROVE TickInv(t)'
    BY ZenonT(30), <1>2, <1>3 DEF CronInv, TickInv, Enqueued, Prepared, Busy
  <1>q. QED BY Zenon, <1>1, <1>3 DEF CronInv, NothingSkipped, JobsInserted

\* Steps that touch neither the cursor, the jobs nor an instance keep the
\* invariant (time, the deletion of a job).
LEMMA FrameStep ==
  ASSUME CronInv, UNCHANGED <<catchUp, sch, cursor, inserted>>, jobs' \subseteq jobs,
         clock' \in Int
  PROVE  CronInv'
  <1>1. CronTypes' BY Zenon DEF CronInv, CronTypes
  <1>2. ASSUME NEW t \in Schedulers PROVE TickInv(t)'
    BY Zenon, <1>2 DEF CronInv, TickInv, Enqueued, Prepared, Busy
  <1>q. QED BY Zenon, <1>1, <1>2 DEF CronInv, NothingSkipped, JobsInserted

\* Inserts are never taken back, and the occurrence ends up with one, whether
\* or not its permanent key was taken (JobInsertMany).
LEMMA InsertGrows ==
  ASSUME inserted \in [Occurrences -> Nat], JobsInserted, NEW o, Insert(o)
  PROVE  /\ inserted' \in [Occurrences -> Nat]
         /\ \A x \in Occurrences : inserted'[x] >= inserted[x]
         /\ o \in Occurrences => inserted'[o] >= 1
         /\ JobsInserted'
  <1>1. CASE o \in jobs
    BY <1>1 DEF Insert, JobsInserted
  <1>2. CASE o \notin jobs
    <2>1. inserted' = [inserted EXCEPT ![o] = @ + 1] /\ jobs' = jobs \cup {o}
      BY Zenon, <1>2 DEF Insert
    <2>2. inserted' = [x \in Occurrences |-> IF x = o THEN inserted[o] + 1 ELSE inserted[x]]
      BY Zenon, <2>1
    <2>3. ASSUME NEW x \in Occurrences
          PROVE  /\ inserted[x] \in Nat
                 /\ inserted'[x] = IF x = o THEN inserted[x] + 1 ELSE inserted[x]
      BY Zenon, <2>2
    <2>4. inserted' \in [Occurrences -> Nat] BY <2>2, <2>3
    <2>q. QED BY <2>1, <2>3, <2>4 DEF JobsInserted
  <1>q. QED BY Zenon, <1>1, <1>2

\* An enqueue only adds inserts, and leaves its instance with an occurrence
\* that has one (enqueueOccurrence).
LEMMA EnqueueStep ==
  ASSUME CronInv, NEW s \in Schedulers, EnqueueOccurrence(s)
  PROVE  CronInv'
  <1> DEFINE r == sch[s]
             o == Head(r.due)
  <1>1. /\ r \in Ticks /\ Busy(r) /\ Prepared(r) /\ cursor # None
        /\ r.phase = "enqueue" /\ Insert(o)
        /\ sch' = [sch EXCEPT ![s].phase = "advance"]
        /\ UNCHANGED <<catchUp, clock, cursor>>
    BY Zenon DEF EnqueueOccurrence, CronInv, CronTypes, TickInv, Busy
  <1>2. sch' \in [Schedulers -> Ticks]
    <2>1. [r EXCEPT !.phase = "advance"] \in Ticks BY Zenon, <1>1 DEF Ticks, Phases
    <2>q. QED BY Zenon, <1>1, <2>1 DEF CronInv, CronTypes
  <1>3. /\ inserted' \in [Occurrences -> Nat]
        /\ \A x \in Occurrences : inserted[x] \in Nat /\ inserted'[x] >= inserted[x]
        /\ o \in Occurrences => inserted'[o] >= 1
        /\ JobsInserted'
    BY Zenon, <1>1, InsertGrows DEF CronInv, CronTypes
  <1>4. CronTypes' BY Zenon, <1>1, <1>2, <1>3 DEF CronInv, CronTypes
  <1>6. NothingSkipped'
    BY <1>1, <1>3 DEF CronInv, CronTypes, NothingSkipped
  <1>7. ASSUME NEW t \in Schedulers PROVE TickInv(t)'
    <2>1. CASE t = s
      <3>1. sch'[s] = [r EXCEPT !.phase = "advance"]
        BY Zenon, <1>1 DEF CronInv, CronTypes
      <3>2. sch'[s].due = r.due /\ sch'[s].expected = r.expected
        BY ZenonT(30), <1>1, <3>1 DEF Ticks
      <3>3. Prepared(sch[s])' BY Zenon, <1>1, <3>2 DEF Prepared
      <3>4. Enqueued(sch[s])' BY Zenon, <1>3, <3>2 DEF Enqueued, Occurrences
      <3>q. QED BY Zenon, <2>1, <1>1, <3>3, <3>4 DEF TickInv
    <2>2. CASE t # s
      <3>1. sch'[t] = sch[t] BY Zenon, <2>2, <1>1 DEF CronInv, CronTypes
      <3>2. TickInv(t) BY Zenon DEF CronInv
      <3>3. Busy(sch[t])' => Busy(sch[t]) BY Zenon, <3>1 DEF Busy
      <3>4. Prepared(sch[t]) => Prepared(sch[t])' BY Zenon, <1>1, <3>1 DEF Prepared
      <3>5. Enqueued(sch[t]) => Enqueued(sch[t])'
        BY <1>1, <1>3, <3>1 DEF Enqueued, Occurrences
      <3>q. QED BY Zenon, <1>1, <3>2, <3>3, <3>4, <3>5 DEF TickInv
    <2>q. QED BY Zenon, <2>1, <2>2
  <1>q. QED BY Zenon, <1>3, <1>4, <1>6, <1>7 DEF CronInv

\* The occurrences that one tick enqueues, when there are any: all that the
\* scan met, or the latest of them (tickDurable).
Due(at, n) == IF catchUp = "all" THEN [i \in 1..n |-> at + i] ELSE <<at + n>>

\* They follow the cursor, under CronCatchUpAll without a gap (tickDurable).
LEMMA DueFollows ==
  ASSUME NEW at \in Nat, NEW n \in Nat \ {0}
  PROVE  /\ Due(at, n) \in Seq(Int) /\ Due(at, n) # << >>
         /\ catchUp = "all" => \A i \in 1..Len(Due(at, n)) : Due(at, n)[i] = at + i
         /\ catchUp # "all" => Len(Due(at, n)) = 1 /\ Due(at, n)[1] > at
  <1>1. CASE catchUp = "all"
    <2> DEFINE d == [i \in 1..n |-> at + i]
    <2>1. Due(at, n) = d BY Zenon, <1>1 DEF Due
    <2>2. d \in Seq(Int) /\ Len(d) = n OBVIOUS
    <2>3. \A i \in 1..Len(d) : d[i] = at + i BY Zenon, <2>2
    <2>4. d # << >> BY Zenon, <2>2
    <2> HIDE DEF d
    <2>q. QED BY Zenon, <1>1, <2>1, <2>2, <2>3, <2>4
  <1>2. CASE catchUp # "all"
    <2> DEFINE d == <<at + n>>
    <2>1. Due(at, n) = d BY Zenon, <1>2 DEF Due
    <2>2. d \in Seq(Int) /\ Len(d) = 1 /\ d[1] = at + n /\ d # << >> OBVIOUS
    <2>3. at + n > at OBVIOUS
    <2> HIDE DEF d
    <2>q. QED BY Zenon, <1>2, <2>1, <2>2, <2>3
  <1>q. QED BY Zenon, <1>1, <1>2

\* The scan takes occurrences that follow the cursor, and loading creates a
\* cursor at StartAt or leaves it (tickDurable, ScheduleCursorGetOrCreate).
LEMMA LoadStep ==
  ASSUME CronInv, NEW s \in Schedulers, Load(s)
  PROVE  CronInv' /\ (cursor # None => cursor' = cursor)
  <1> DEFINE now == sch[s].now
             at == IF cursor = None THEN sch[s].startAt ELSE cursor
             n == ScanLength(at, now)
             due == Due(at, n)
  <1>1. sch[s] \in Ticks /\ sch[s].startAt \in StartAts /\ at \in Nat /\ now \in Int
    BY Zenon, CronAssumption DEF CronInv, CronTypes, Ticks
  <1>2. n \in Nat
    BY <1>1, CronAssumption DEF ScanLength
  <1>3. cursor' = at /\ UNCHANGED <<catchUp, clock, jobs, inserted>>
    BY Zenon DEF Load
  <1>4. PICK r \in Ticks :
          /\ sch' = [sch EXCEPT ![s] = r]
          /\ Busy(r) => Prepared(r) /\ (catchUp = "all" => r.phase = "enqueue")
    <2>2. CASE EndTick(s)
      BY Zenon, <1>1, <2>2, RestingType DEF EndTick, Ticks
    <2>3. ASSUME n # 0, NEW phase \in {"enqueue", "advance"},
                 catchUp = "all" => phase = "enqueue",
                 sch' = [sch EXCEPT ![s].expected = at, ![s].due = due, ![s].phase = phase]
          PROVE  \E r \in Ticks :
                   /\ sch' = [sch EXCEPT ![s] = r]
                   /\ Busy(r) => Prepared(r) /\ (catchUp = "all" => r.phase = "enqueue")
      <3> DEFINE r == [sch[s] EXCEPT !.expected = at, !.due = due, !.phase = phase]
      <3>1. /\ due \in Seq(Int) /\ due # << >>
            /\ catchUp = "all" => \A i \in 1..Len(due) : due[i] = at + i
            /\ catchUp # "all" => Len(due) = 1 /\ due[1] > at
        BY Zenon, <1>1, <1>2, <2>3, DueFollows
      <3> HIDE DEF due, at
      <3>4. r.due = due /\ r.expected = at /\ r.phase = phase /\ r.now = sch[s].now
            /\ r.startAt = sch[s].startAt
        BY Zenon, <1>1 DEF Ticks
      <3>2. r \in Ticks
        <4>1. at \in Int /\ due \in Seq(Int) /\ phase \in Phases
          BY <1>1, <2>3, <3>1 DEF Phases
        <4>q. QED BY Zenon, <1>1, <4>1, TickUpdateType
      <3>5. Prepared(r) BY Zenon, <1>1, <3>1, <3>4 DEF Prepared
      <3>q. QED BY Zenon, <2>3, <3>2, <3>4, <3>5
    <2>q. QED BY Zenon, <1>2, <2>2, <2>3 DEF Load, Due, FirstPhases
  <1>5. CronTypes' BY Zenon, <1>1, <1>3, <1>4 DEF CronInv, CronTypes
  <1>6. ASSUME NEW t \in Schedulers PROVE TickInv(t)'
    <2>0. cursor' # None BY <1>1, <1>3, CronAssumption
    <2>1. CASE t = s
      <3>1. sch'[s] = r BY Zenon, <1>4 DEF CronInv, CronTypes
      <3>q. QED BY Zenon, <1>3, <1>4, <2>0, <2>1, <3>1 DEF TickInv, Busy, Prepared, Enqueued
    <2>2. CASE t # s
      <3>1. sch'[t] = sch[t] /\ TickInv(t) BY Zenon, <1>4, <2>2 DEF CronInv, CronTypes
      <3>q. QED BY Zenon, <1>3, <2>0, <3>1 DEF TickInv, Busy, Prepared, Enqueued
    <2>q. QED BY Zenon, <2>1, <2>2
  <1>7. NothingSkipped'
    <2>1. CASE cursor = None
      <3>1. cursor' = sch[s].startAt /\ cursor' \in StartAts BY Zenon, <1>1, <1>3, <2>1
      <3>2. \A o \in Occurrences : o > cursor' => ~(o <= cursor')
        BY <1>1, <1>3 DEF Occurrences
      <3>q. QED BY Zenon, <3>1, <3>2 DEF NothingSkipped
    <2>2. CASE cursor # None
      BY Zenon, <1>3, <2>2 DEF CronInv, NothingSkipped
    <2>q. QED BY Zenon, <2>1, <2>2
  <1>q. QED BY Zenon, <1>3, <1>5, <1>6, <1>7 DEF CronInv, JobsInserted

\* The compare-and-swap moves the cursor to the next occurrence, which has
\* been enqueued, or not at all (advanceCursor, ScheduleCursorAdvance).
LEMMA AdvanceStep ==
  ASSUME CronInv, NEW s \in Schedulers, AdvanceCursor(s)
  PROVE  CronInv' /\ cursor' # None /\ cursor' >= cursor
  <1> DEFINE r == sch[s]
             o == Head(r.due)
             rest == Tail(r.due)
  <1>1. /\ r \in Ticks /\ Prepared(r) /\ Enqueued(r) /\ r.phase = "advance"
        /\ cursor \in Nat /\ UNCHANGED <<catchUp, clock, jobs, inserted>>
    BY Zenon DEF AdvanceCursor, CronInv, CronTypes, TickInv, Busy
  <1>2. /\ r.due \in Seq(Int) /\ r.due # << >> /\ r.expected \in Nat
        /\ r.startAt \in StartAts
    BY Zenon, <1>1 DEF Prepared, Ticks
  <1>3. /\ o \in Int /\ o = r.due[1] /\ rest \in Seq(Int)
        /\ Len(r.due) \in Nat \ {0} /\ Len(rest) = Len(r.due) - 1
        /\ \A i \in 1..Len(rest) : rest[i] = r.due[i + 1]
    BY <1>2, HeadTailProperties
  <1>4. /\ o > r.expected
        /\ catchUp = "all" => o = r.expected + 1
    BY <1>1, <1>3 DEF Prepared
  <1>5. CASE cursor # r.expected
    <2>1. EndTick(s) /\ cursor' = cursor
      BY Zenon, <1>5 DEF AdvanceCursor, CursorMatches
    <2>2. CronInv'
      BY Zenon, <1>1, <1>2, <2>1, RestingType, QuietStep DEF EndTick
    <2>q. QED BY <1>1, <2>1, <2>2, CronAssumption
  <1>6. CASE cursor = r.expected
    <2>1. /\ cursor' = o
          /\ \/ rest = << >> /\ EndTick(s)
             \/ /\ rest # << >>
                /\ sch' = [sch EXCEPT ![s].expected = o, ![s].due = rest,
                                      ![s].phase = "enqueue"]
      BY Zenon, <1>6 DEF AdvanceCursor, CursorMatches
    <2>2. o \in Nat BY <1>2, <1>3, <1>4
    <2>3. PICK r2 \in Ticks :
            /\ sch' = [sch EXCEPT ![s] = r2]
            /\ Busy(r2) => Prepared(r2) /\ r2.phase = "enqueue"
      <3>1. CASE EndTick(s)
        BY Zenon, <1>2, <3>1, RestingType DEF EndTick
      <3>2. CASE rest # << >> /\ ~EndTick(s)
        <4> DEFINE r2 == [r EXCEPT !.expected = o, !.due = rest, !.phase = "enqueue"]
        <4>1. r2 \in Ticks BY Zenon, <1>1, <1>3, TickUpdateType DEF Phases
        <4>2. r2.expected = o /\ r2.due = rest /\ r2.phase = "enqueue"
          BY Zenon, <1>1 DEF Ticks
        <4>3. catchUp = "all"
          <5>1. Len(rest) \in Nat \ {0} BY Zenon, <1>3, <3>2, EmptySeq
          <5>q. QED BY <1>1, <1>3, <5>1 DEF Prepared
        <4>4. ASSUME NEW i \in 1..Len(rest) PROVE rest[i] = o + i
          <5>1. i + 1 \in 1..Len(r.due) /\ i \in Int BY <1>3
          <5>2. r.due[i + 1] = r.expected + (i + 1) BY Zenon, <1>1, <4>3, <5>1 DEF Prepared
          <5>3. rest[i] = r.due[i + 1] /\ o = r.expected + 1 /\ r.expected \in Int
            BY <1>2, <1>3, <1>4, <4>3
          <5>q. QED BY <5>1, <5>2, <5>3
        <4>5. Prepared(r2) BY Zenon, <2>2, <3>2, <4>2, <4>3, <4>4 DEF Prepared
        <4>6. sch' = [sch EXCEPT ![s] = r2] BY Zenon, <2>1, <3>2
        <4>q. QED BY Zenon, <4>1, <4>2, <4>5, <4>6
      <3>q. QED BY Zenon, <2>1, <3>1, <3>2
    <2>4. CronTypes' BY Zenon, <1>1, <2>1, <2>2, <2>3 DEF CronInv, CronTypes
    <2>5. ASSUME NEW t \in Schedulers PROVE TickInv(t)'
      <3>0. cursor' # None BY <2>1, <2>2, CronAssumption
      <3>1. CASE t = s
        <4>1. sch'[s] = r2 BY Zenon, <2>3 DEF CronInv, CronTypes
        <4>q. QED BY Zenon, <1>1, <2>3, <3>0, <3>1, <4>1 DEF TickInv, Busy, Prepared, Enqueued
      <3>2. CASE t # s
        <4>1. sch'[t] = sch[t] /\ TickInv(t) BY Zenon, <2>3, <3>2 DEF CronInv, CronTypes
        <4>q. QED BY Zenon, <1>1, <3>0, <4>1 DEF TickInv, Busy, Prepared, Enqueued
      <3>q. QED BY Zenon, <3>1, <3>2
    <2>6. NothingSkipped'
      <3>1. ASSUME catchUp = "all", NEW x \in Occurrences, x <= cursor',
                   \A startAt \in StartAts : x > startAt
            PROVE  inserted'[x] >= 1
        <4>1. CASE x = o
          <5>1. inserted[x] >= 1 BY Zenon, <1>1, <3>1, <4>1 DEF Enqueued
          <5>q. QED BY Zenon, <1>1, <5>1
        <4>2. CASE x # o
          <5>1. x <= cursor
            <6>1. x \in Int /\ o \in Int /\ cursor \in Int /\ o = cursor + 1 /\ x <= o
              BY <1>1, <1>3, <1>4, <1>6, <2>1, <3>1 DEF Occurrences
            <6>q. QED BY <4>2, <6>1
          <5>q. QED BY <1>1, <3>1, <5>1, CronAssumption DEF CronInv, NothingSkipped
        <4>q. QED BY Zenon, <4>1, <4>2
      <3>q. QED BY Zenon, <1>1, <3>1 DEF NothingSkipped
    <2>7. JobsInserted' BY Zenon, <1>1 DEF CronInv, JobsInserted
    <2>8. cursor' # None /\ cursor' > cursor
      BY <1>4, <1>6, <2>1, <2>2, CronAssumption
    <2>9. cursor' >= cursor BY <1>1, <2>1, <2>2, <2>8
    <2>q. QED BY Zenon, <2>4, <2>5, <2>6, <2>7, <2>8, <2>9 DEF CronInv
  <1>q. QED BY Zenon, <1>5, <1>6

\* Every step keeps the invariant and, once the cursor exists, does not move
\* it back.
LEMMA NextInv ==
  ASSUME CronInv, [Next]_vars
  PROVE  CronInv' /\ (cursor # None => cursor' # None /\ cursor' >= cursor)
  <1>0. ASSUME cursor' = cursor
        PROVE  cursor # None => cursor' # None /\ cursor' >= cursor
    BY <1>0 DEF CronInv, CronTypes
  <1>1. CASE Tick
    <2>1. UNCHANGED <<catchUp, sch, cursor, inserted, jobs>> /\ clock' \in Int
      BY <1>1 DEF Tick, CronInv, CronTypes
    <2>q. QED BY Zenon, <1>0, <2>1, FrameStep
  <1>2. ASSUME NEW o \in Occurrences, Delete(o)
        PROVE  CronInv' /\ cursor' = cursor
    BY Zenon, <1>2, FrameStep DEF Delete, CronInv, CronTypes
  <1>3. ASSUME NEW s \in Schedulers,
               Elect(s) \/ ReadClock(s) \/ CallFails(s)
               \/ Stop(s) \/ Crash(s) \/ Start(s)
        PROVE  CronInv' /\ cursor' = cursor
    <2>1. sch[s] \in Ticks /\ sch[s].startAt \in StartAts /\ clock \in Int
      BY Zenon DEF CronInv, CronTypes, Ticks
    <2>2. UNCHANGED <<catchUp, cursor, inserted, jobs, clock>>
      BY Zenon, <1>3 DEF Elect, ReadClock, CallFails, Stop, Crash, Start
    <2>3. CASE Elect(s)
      <3>1. [sch[s] EXCEPT !.phase = "elected"] \in Ticks BY Zenon, <2>1 DEF Ticks, Phases
      <3>q. QED BY Zenon, <2>1, <2>2, <2>3, <3>1, QuietStep DEF Elect, Busy, Ticks
    <2>4. CASE ReadClock(s)
      <3> DEFINE r == [sch[s] EXCEPT !.phase = "load", !.now = clock]
      <3>1. /\ r.phase = "load" /\ r.now \in Int /\ r.startAt \in StartAts
            /\ r.expected \in Int /\ r.due \in Seq(Int)
        BY Zenon, <2>1 DEF Ticks
      <3>2. r \in Ticks /\ ~Busy(r) BY Zenon, <2>1, <3>1 DEF Ticks, Phases, Busy
      <3>3. sch' = [sch EXCEPT ![s] = r] BY Zenon, <2>4 DEF ReadClock
      <3>q. QED BY Zenon, <2>2, <3>2, <3>3, QuietStep
    <2>5. CASE EndTick(s)
      BY Zenon, <2>1, <2>2, <2>5, RestingType, QuietStep DEF EndTick
    <2>6. CASE sch' = [sch EXCEPT ![s] = Down(sch[s].startAt)]
      BY Zenon, <2>1, <2>2, <2>6, RestingType, QuietStep
    <2>7. CASE Start(s)
      BY Zenon, <2>2, <2>7, RestingType, QuietStep DEF Start
    <2>q. QED BY Zenon, <1>3, <2>3, <2>4, <2>5, <2>6, <2>7
            DEF CallFails, Stop, Crash
  <1>4. ASSUME NEW s \in Schedulers, EnqueueOccurrence(s)
        PROVE  CronInv' /\ cursor' = cursor
    BY Zenon, <1>4, EnqueueStep DEF EnqueueOccurrence
  <1>5. CASE UNCHANGED vars
    BY Zenon, <1>0, <1>5, FrameStep DEF vars, CronInv, CronTypes
  <1>q. QED
    BY Zenon, <1>0, <1>1, <1>2, <1>3, <1>4, <1>5, LoadStep, AdvanceStep DEF Next, Step

\* Under CronCatchUpAll no occurrence is skipped, for every number of
\* instances and whatever crashes, failed calls and stale leaders do
\* (tickDurable).
THEOREM SkipsNothing == Spec => []NothingSkipped
  <1>1. CronInv /\ [Next]_vars => CronInv' BY Zenon, NextInv
  <1>2. CronInv => NothingSkipped BY Zenon DEF CronInv
  <1>q. QED BY <1>1, <1>2, InitInv, PTL DEF Spec

\* The cursor of a durable job never moves back, under every catch-up policy
\* (ScheduleCursorAdvance).
THEOREM NeverRewinds == Spec => CursorNeverRewinds
  <1>1. CronInv /\ [Next]_vars => CronInv' BY Zenon, NextInv
  <1>2. CronInv /\ [Next]_vars => [cursor # None => (cursor' # None /\ cursor' >= cursor)]_vars
    BY Zenon, NextInv
  <1>q. QED BY <1>1, <1>2, InitInv, PTL DEF Spec, CursorNeverRewinds

-----------------------------------------------------------------------------
(* At most one job per occurrence.                                         *)

\* As long as its job is not deleted, an occurrence that was inserted has a row.
OnceInv ==
  /\ inserted \in [Occurrences -> Nat]
  /\ \A o \in Occurrences : o \notin deleted =>
       inserted[o] <= 1 /\ (inserted[o] = 1 => o \in jobs)

\* Every step but its deletion keeps the row of an inserted occurrence, so its
\* permanent key blocks a second insert (JobInsertMany).
LEMMA OnceStep ==
  ASSUME OnceInv, [Next]_vars
  PROVE  OnceInv'
  <1>1. ASSUME NEW o \in Occurrences, Delete(o) PROVE OnceInv'
    BY Zenon, <1>1 DEF Delete, OnceInv
  <1>2. ASSUME NEW s \in Schedulers, EnqueueOccurrence(s) PROVE OnceInv'
    <2> DEFINE o == Head(sch[s].due)
    <2>1. Insert(o) /\ deleted' = deleted BY Zenon, <1>2 DEF EnqueueOccurrence
    <2> HIDE DEF o
    <2>2. CASE o \in jobs BY Zenon, <2>1, <2>2 DEF Insert, OnceInv
    <2>3. CASE o \notin jobs
      <3>1. jobs' = jobs \cup {o} /\ inserted' = [inserted EXCEPT ![o] = @ + 1]
        BY Zenon, <2>1, <2>3 DEF Insert
      <3>2. inserted' = [x \in Occurrences |-> IF x = o THEN inserted[o] + 1 ELSE inserted[x]]
        BY Zenon, <3>1 DEF OnceInv
      <3>3. ASSUME NEW x \in Occurrences
            PROVE  /\ inserted[x] \in Nat
                   /\ inserted'[x] = IF x = o THEN inserted[x] + 1 ELSE inserted[x]
                   /\ x = o /\ x \notin deleted => inserted[x] = 0
        BY <2>3, <3>2 DEF OnceInv
      <3>4. inserted' \in [Occurrences -> Nat] BY <3>2, <3>3
      <3>q. QED BY <2>1, <3>1, <3>3, <3>4 DEF OnceInv
    <2>q. QED BY Zenon, <2>2, <2>3
  <1>3. ASSUME UNCHANGED <<jobs, inserted, deleted>> PROVE OnceInv'
    BY Zenon, <1>3 DEF OnceInv
  <1>q. QED BY ZenonT(30), <1>1, <1>2, <1>3
          DEF Next, Step, Tick, Elect, ReadClock, Load, AdvanceCursor,
              CallFails, Stop, Crash, Start, vars

\* No failover and no crash duplicates an occurrence whose job is not deleted,
\* for every number of instances and every catch-up policy
\* (enqueueOccurrence).
THEOREM EnqueuedOnce == Spec => []OncePerOccurrence
  <1>1. Init => OnceInv BY DEF Init, OnceInv
  <1>2. OnceInv /\ [Next]_vars => OnceInv' BY Zenon, OnceStep
  <1>3. OnceInv => OncePerOccurrence BY Zenon DEF OnceInv, OncePerOccurrence
  <1>q. QED BY <1>1, <1>2, <1>3, PTL DEF Spec

-----------------------------------------------------------------------------
(* The state of the group.                                                 *)

Leases == [owner : Schedulers \cup {None}, left : 0..LeaderTTL]

\* A tick never works on an occurrence after the time it read.
NotEarly(r) == Busy(r) => \A i \in 1..Len(r.due) : r.due[i] <= r.now

GroupInv ==
  /\ clock \in 0..MaxTime
  /\ lease \in Leases
  /\ jobs \subseteq Occurrences
  /\ \A s \in Schedulers : sch[s].now \in 0..clock /\ NotEarly(sch[s])

\* The scan stops at the time the tick read (tickDurable).
LEMMA ScanStops ==
  ASSUME NEW at \in Nat, NEW now \in Int, ScanLength(at, now) # 0
  PROVE  ScanLength(at, now) \in Nat \ {0} /\ at + ScanLength(at, now) <= now
  <1>1. MaxCatchUp \in Nat /\ ScanLimit \in Nat BY Zenon, CronAssumption
  <1>q. QED BY <1>1 DEF ScanLength

\* A step of one instance that keeps to its time.
LEMMA InstanceStep ==
  ASSUME CronInv, GroupInv, NEW s \in Schedulers, NEW r,
         sch' = [sch EXCEPT ![s] = r], r.now \in 0..clock, NotEarly(r),
         clock' = clock, jobs' \subseteq Occurrences, lease' \in Leases
  PROVE  GroupInv'
  <1>1. \A t \in Schedulers : sch'[t] = IF t = s THEN r ELSE sch[t]
    BY Zenon DEF CronInv, CronTypes
  <1>2. \A t \in Schedulers : sch'[t].now \in 0..clock /\ NotEarly(sch'[t])
    BY Zenon, <1>1 DEF GroupInv
  <1>q. QED BY Zenon, <1>2 DEF GroupInv

\* What is due is not after the time the tick read, when it is loaded (Load),
\* enqueued and passed (enqueueOccurrence, advanceCursor).
LEMMA LoadNotEarly ==
  ASSUME CronInv, GroupInv, NEW s \in Schedulers, Load(s)
  PROVE  GroupInv'
  <1> DEFINE now == sch[s].now
             at == IF cursor = None THEN sch[s].startAt ELSE cursor
             n == ScanLength(at, now)
             due == Due(at, n)
  <1>1. sch[s] \in Ticks /\ at \in Nat /\ now \in 0..clock /\ now \in Int /\ clock \in Nat
    BY CronAssumption DEF CronInv, CronTypes, Ticks, GroupInv
  <1>2. clock' = clock /\ jobs' \subseteq Occurrences /\ lease' \in Leases
    BY Zenon DEF Load, GroupInv
  <1>3. CASE EndTick(s)
    <2>1. Resting(sch[s].startAt).now = 0 /\ NotEarly(Resting(sch[s].startAt))
      BY Zenon DEF Resting, NotEarly, Busy
    <2>2. 0 \in 0..clock BY <1>1
    <2>q. QED BY Zenon, <1>2, <1>3, <2>1, <2>2, InstanceStep DEF EndTick
  <1>4. ASSUME n # 0, NEW phase \in {"enqueue", "advance"},
               sch' = [sch EXCEPT ![s].expected = at, ![s].due = due, ![s].phase = phase]
        PROVE  GroupInv'
    <2> DEFINE r == [sch[s] EXCEPT !.expected = at, !.due = due, !.phase = phase]
    <2>1. n \in Nat \ {0} /\ at + n <= now BY Zenon, <1>1, <1>4, ScanStops
    <2>2. \A i \in 1..Len(due) : due[i] <= now
      <3>1. CASE catchUp = "all"
        <4>1. due = [i \in 1..n |-> at + i] BY Zenon, <3>1 DEF Due
        <4>2. Len(due) = n BY <2>1, <4>1
        <4>3. ASSUME NEW i \in 1..n PROVE due[i] = at + i BY Zenon, <4>1
        <4>4. ASSUME NEW i \in 1..n PROVE at + i <= now BY <1>1, <2>1
        <4>q. QED BY <4>2, <4>3, <4>4
      <3>2. CASE catchUp # "all"
        <4>1. due = <<at + n>> BY Zenon, <3>2 DEF Due
        <4>q. QED BY <2>1, <4>1
      <3>q. QED BY Zenon, <3>1, <3>2
    <2> HIDE DEF due, at, n
    <2>3. r.due = due /\ r.now = now BY Zenon, <1>1 DEF Ticks
    <2>4. sch' = [sch EXCEPT ![s] = r] BY Zenon, <1>4
    <2>5. NotEarly(r) BY Zenon, <2>2, <2>3 DEF NotEarly
    <2> HIDE DEF r
    <2>q. QED BY Zenon, <1>1, <1>2, <2>3, <2>4, <2>5, InstanceStep
  <1>q. QED BY Zenon, <1>3, <1>4 DEF Load, Due, FirstPhases

\* enqueueOccurrence inserts an occurrence between StartAt and the clock.
LEMMA EnqueueNotEarly ==
  ASSUME CronInv, GroupInv, NEW s \in Schedulers, EnqueueOccurrence(s)
  PROVE  GroupInv'
  <1>1. PICK r \in Ticks : r = sch[s] BY Zenon DEF CronInv, CronTypes
  <1>2. /\ Prepared(r) /\ NotEarly(r) /\ Busy(r) /\ r.now \in 0..clock
        /\ clock \in 0..MaxTime /\ MaxTime \in Nat
    BY Zenon, <1>1, CronAssumption DEF EnqueueOccurrence, CronInv, TickInv, Busy, GroupInv
  <1>3. r.due \in Seq(Int) /\ r.due # << >> /\ r.expected \in Nat
    BY Zenon, <1>2 DEF Prepared, Ticks
  <1>4. Head(r.due) = r.due[1] /\ Len(r.due) \in Nat \ {0} /\ r.due[1] \in Int
    BY <1>3, HeadTailProperties
  <1>5. r.due[1] > r.expected /\ r.due[1] <= r.now
    BY <1>2, <1>4 DEF Prepared, NotEarly
  <1>6. r.due[1] \in Occurrences BY <1>2, <1>3, <1>4, <1>5 DEF Occurrences
  <1>7. jobs' \subseteq Occurrences /\ clock' = clock /\ lease' \in Leases
    BY Zenon, <1>1, <1>4, <1>6 DEF EnqueueOccurrence, Insert, GroupInv
  <1>8. PICK r2 : r2 = [r EXCEPT !.phase = "advance"] BY Zenon
  <1>9. r2.now = r.now /\ r2.due = r.due BY Zenon, <1>8 DEF Ticks
  <1>10. NotEarly(r2) BY Zenon, <1>2, <1>9 DEF NotEarly
  <1>11. sch' = [sch EXCEPT ![s] = r2] BY Zenon, <1>1, <1>8 DEF EnqueueOccurrence
  <1>q. QED BY Zenon, <1>2, <1>7, <1>9, <1>10, <1>11, InstanceStep

\* advanceCursor goes on with the rest of the occurrences, or ends the tick.
LEMMA AdvanceNotEarly ==
  ASSUME CronInv, GroupInv, NEW s \in Schedulers, AdvanceCursor(s)
  PROVE  GroupInv'
  <1>1. PICK r \in Ticks : r = sch[s] BY Zenon DEF CronInv, CronTypes
  <1>2. Prepared(r) /\ NotEarly(r) /\ Busy(r) /\ r.now \in 0..clock /\ clock \in Nat
    BY <1>1, CronAssumption DEF AdvanceCursor, CronInv, TickInv, Busy, GroupInv
  <1>3. r.due \in Seq(Int) /\ r.due # << >>
    BY Zenon, <1>2 DEF Prepared, Ticks
  <1>4. PICK rest : rest = Tail(r.due) BY Zenon
  <1>5. /\ Len(r.due) \in Nat \ {0} /\ Len(rest) = Len(r.due) - 1
        /\ \A i \in 1..Len(rest) : rest[i] = r.due[i + 1]
    BY <1>3, <1>4, HeadTailProperties
  <1>6. clock' = clock /\ jobs' \subseteq Occurrences /\ lease' \in Leases
    BY Zenon DEF AdvanceCursor, GroupInv
  <1>7. CASE EndTick(s)
    <2>1. Resting(sch[s].startAt).now = 0 /\ NotEarly(Resting(sch[s].startAt))
      BY Zenon DEF Resting, NotEarly, Busy
    <2>2. 0 \in 0..clock BY <1>2
    <2>q. QED BY Zenon, <1>6, <1>7, <2>1, <2>2, InstanceStep DEF EndTick
  <1>8. ASSUME NEW o, sch' = [sch EXCEPT ![s].expected = o, ![s].due = rest,
                                         ![s].phase = "enqueue"]
        PROVE  GroupInv'
    <2>1. PICK r2 : r2 = [r EXCEPT !.expected = o, !.due = rest, !.phase = "enqueue"]
      BY Zenon
    <2>2. r2.now = r.now /\ r2.due = rest BY Zenon, <2>1 DEF Ticks
    <2>3. \A i \in 1..Len(rest) : i + 1 \in 1..Len(r.due) BY <1>5
    <2>4. \A i \in 1..Len(rest) : rest[i] <= r.now BY Zenon, <1>2, <1>5, <2>3 DEF NotEarly
    <2>5. NotEarly(r2) BY Zenon, <2>2, <2>4 DEF NotEarly
    <2>6. sch' = [sch EXCEPT ![s] = r2] BY Zenon, <1>1, <1>8, <2>1
    <2>q. QED BY Zenon, <1>2, <1>6, <2>2, <2>5, <2>6, InstanceStep
  <1>q. QED BY Zenon, <1>1, <1>4, <1>7, <1>8 DEF AdvanceCursor

\* Every step keeps the group in shape.
LEMMA GroupStep ==
  ASSUME CronInv, GroupInv, [Next]_vars
  PROVE  GroupInv'
  <1>1. clock \in Nat /\ LeaderTTL \in Nat /\ MaxTime \in Nat
    BY CronAssumption DEF GroupInv
  <1>2. CASE Tick
    <2>1. clock' \in clock..MaxTime /\ UNCHANGED <<jobs, sch>>
      BY <1>1, <1>2 DEF Tick, GroupInv
    <2>2. lease' \in Leases
      <3>1. PICK l \in 0..LeaderTTL : lease' = [lease EXCEPT !.left = l]
        BY <1>1, <1>2 DEF Tick, GroupInv, Leases
      <3>q. QED BY Zenon, <3>1 DEF GroupInv, Leases
    <2>3. \A s \in Schedulers : sch[s].now \in 0..clock' BY <1>1, <2>1 DEF GroupInv
    <2>4. clock' \in 0..MaxTime BY <1>1, <2>1
    <2>q. QED BY Zenon, <2>1, <2>2, <2>3, <2>4 DEF GroupInv, NotEarly, Busy
  <1>3. ASSUME NEW o \in Occurrences, Delete(o) PROVE GroupInv'
    BY Zenon, <1>3 DEF Delete, GroupInv, NotEarly, Busy
  <1>4. ASSUME NEW s \in Schedulers, Elect(s) PROVE GroupInv'
    <2>1. PICK r : r = [sch[s] EXCEPT !.phase = "elected"] BY Zenon
    <2>2. r.now = sch[s].now /\ r.phase = "elected"
      BY Zenon, <2>1 DEF CronInv, CronTypes, Ticks
    <2>3. NotEarly(r) BY Zenon, <2>2 DEF NotEarly, Busy
    <2>4. LeaderTTL \in 0..LeaderTTL BY <1>1
    <2>5. lease' \in Leases BY Zenon, <1>4, <2>4 DEF Elect, LeaderAttemptElect, Leases
    <2>6. sch' = [sch EXCEPT ![s] = r] /\ clock' = clock /\ jobs' \subseteq Occurrences
      BY Zenon, <1>4, <2>1 DEF Elect, GroupInv
    <2>7. r.now \in 0..clock BY Zenon, <2>2 DEF GroupInv
    <2>q. QED BY Zenon, <2>3, <2>5, <2>6, <2>7, InstanceStep
  <1>5. ASSUME NEW s \in Schedulers, ReadClock(s) PROVE GroupInv'
    <2>1. PICK r : r = [sch[s] EXCEPT !.phase = "load", !.now = clock] BY Zenon
    <2>2. r.now = clock /\ r.phase = "load"
      BY Zenon, <2>1 DEF CronInv, CronTypes, Ticks
    <2>3. NotEarly(r) BY Zenon, <2>2 DEF NotEarly, Busy
    <2>4. lease' \in Leases /\ clock' = clock /\ jobs' \subseteq Occurrences
      BY Zenon, <1>5 DEF ReadClock, GroupInv
    <2>5. sch' = [sch EXCEPT ![s] = r] BY Zenon, <1>5, <2>1 DEF ReadClock
    <2>6. r.now \in 0..clock BY <1>1, <2>2
    <2>q. QED BY Zenon, <2>3, <2>4, <2>5, <2>6, InstanceStep
  <1>6. ASSUME NEW s \in Schedulers, CallFails(s) \/ Stop(s) \/ Crash(s) \/ Start(s)
        PROVE GroupInv'
    <2>1. PICK n : sch' = [sch EXCEPT ![s] = Resting(n)] \/ sch' = [sch EXCEPT ![s] = Down(n)]
      BY Zenon, <1>6 DEF CallFails, Stop, Crash, Start, EndTick
    <2>2. Resting(n).now = 0 /\ ~Busy(Resting(n)) BY Zenon DEF Resting, Busy
    <2>3. Down(n).now = 0 /\ ~Busy(Down(n)) BY Zenon DEF Resting, Down, Busy
    <2>4. clock' = clock /\ jobs' \subseteq Occurrences
      BY Zenon, <1>6 DEF CallFails, Stop, Crash, Start, GroupInv
    <2>5. lease' \in Leases
      <3>1. 0 \in 0..LeaderTTL BY <1>1
      <3>q. QED BY <1>6, <3>1 DEF CallFails, Stop, Crash, Start, LeaderResign, GroupInv, Leases
    <2>6. 0 \in 0..clock BY <1>1
    <2>7. PICK r : sch' = [sch EXCEPT ![s] = r] /\ r.now = 0 /\ NotEarly(r)
      BY Zenon, <2>1, <2>2, <2>3 DEF NotEarly
    <2>q. QED BY Zenon, <2>4, <2>5, <2>6, <2>7, InstanceStep
  <1>7. CASE UNCHANGED vars
    BY Zenon, <1>7 DEF vars, GroupInv, NotEarly, Busy
  <1>q. QED
    BY Zenon, <1>2, <1>3, <1>4, <1>5, <1>6, <1>7, LoadNotEarly, EnqueueNotEarly, AdvanceNotEarly
    DEF Next, Step

\* The group keeps its shape: jobs are only ever made for occurrences up to
\* the clock, and what a tick has left to do follows its cursor without a gap
\* and ends at the time it read (tickDurable).
THEOREM GroupWellFormed == Spec => []TypeOK
  <1>1. Init => GroupInv
    <2> SUFFICES ASSUME Init PROVE GroupInv BY Zenon
    <2>1. PICK n \in StartAts : sch = [s \in Schedulers |-> Resting(n)] BY Zenon DEF Init
    <2>2. 0 \in 0..MaxTime /\ 0 \in 0..LeaderTTL /\ 0 \in 0..0 BY CronAssumption
    <2>3. \A s \in Schedulers : sch[s].now = 0 /\ NotEarly(sch[s])
      BY Zenon, <2>1 DEF Resting, NotEarly, Busy
    <2>q. QED BY Zenon, <2>2, <2>3 DEF Init, GroupInv, Leases
  <1>2. CronInv /\ GroupInv => TypeOK
    <2> SUFFICES ASSUME CronInv, GroupInv PROVE TypeOK BY Zenon
    <2>1. lease.owner \in Schedulers \cup {None} /\ lease.left \in 0..LeaderTTL
      BY Zenon DEF GroupInv, Leases
    <2>2. ASSUME NEW s \in Schedulers
          PROVE  /\ sch[s].phase \in Phases /\ sch[s].now \in 0..clock
                 /\ Busy(sch[s]) =>
                      /\ sch[s].due # << >>
                      /\ \A i \in DOMAIN sch[s].due :
                           sch[s].due[i] \in (sch[s].expected + 1)..sch[s].now
      <3>1. PICK r \in Ticks : r = sch[s] BY Zenon DEF CronInv, CronTypes
      <3>2. r.phase \in Phases /\ r.now \in 0..clock /\ r.now \in Int
        BY Zenon, <3>1 DEF Ticks, GroupInv
      <3>3. ASSUME Busy(r), NEW i \in DOMAIN r.due
            PROVE  r.due[i] \in (r.expected + 1)..r.now
        <4>1. Prepared(r) /\ NotEarly(r) BY Zenon, <3>1, <3>3 DEF CronInv, TickInv, GroupInv
        <4>2. r.due \in Seq(Int) /\ r.expected \in Nat BY Zenon, <4>1 DEF Prepared, Ticks
        <4>3. i \in 1..Len(r.due) /\ r.due[i] \in Int /\ i >= 1 BY <3>3, <4>2
        <4>4. r.due[i] > r.expected
          <5>1. CASE catchUp = "all" BY <4>1, <4>2, <4>3, <5>1 DEF Prepared
          <5>2. CASE catchUp # "all"
            <6>1. i = 1 BY <4>1, <4>3, <5>2 DEF Prepared
            <6>q. QED BY Zenon, <4>1, <5>2, <6>1 DEF Prepared
          <5>q. QED BY Zenon, <5>1, <5>2
        <4>5. r.due[i] <= r.now BY Zenon, <3>3, <4>1, <4>3 DEF NotEarly
        <4>q. QED BY <3>2, <4>2, <4>3, <4>4, <4>5
      <3>4. Busy(r) => r.due # << >> BY Zenon, <3>1 DEF CronInv, TickInv, Prepared
      <3>q. QED BY Zenon, <3>1, <3>2, <3>3, <3>4
    <2>q. QED BY Zenon, <2>1, <2>2 DEF TypeOK, CronInv, CronTypes, GroupInv, Phases, Busy
  <1>3. CronInv /\ [Next]_vars => CronInv' BY Zenon, NextInv
  <1>4. CronInv /\ GroupInv /\ [Next]_vars => GroupInv' BY Zenon, GroupStep
  <1>q. QED BY <1>1, <1>2, <1>3, <1>4, InitInv, PTL DEF Spec
=============================================================================
