--------------------------- MODULE RateLimitCursor ---------------------------
(***************************************************************************)
(* driver.AcquireRateLimit: pools share one limiter through a stored       *)
(* timestamp that they advance by compare-and-swap.  In GCRA mode it is    *)
(* the theoretical arrival time; in fixed-window mode it is the start of   *)
(* the window plus one unit (a millisecond) per permit.                    *)
(*                                                                         *)
(* A pool reads its clock once, before the first access to the store; any  *)
(* time may pass until the last one.  One limiter key, one unit of time    *)
(* for all durations.                                                      *)
(***************************************************************************)
EXTENDS Integers, FiniteSets

CONSTANTS
  Workers,   \* the pools, each with one acquisition at a time (the rate gate)
  Limit, Period, Burst,
  NoCursor,  \* the cursor does not exist yet
  MaxTime    \* bound on the clock

\* normalizeRateLimits and AcquireRateLimit refuse or replace other values;
\* acquireFixedWindow refuses a limit that does not fit into the period.
ASSUME LimiterAssumption ==
  /\ Limit \in Nat \ {0} /\ Period \in Nat \ {0} /\ Burst \in 1..Limit
  /\ Limit < Period
  /\ NoCursor \notin Int
  /\ MaxTime \in Nat

VARIABLES
  mode,     \* the mode of the rule: "gcra" or "fixed"
  clock,    \* the time all pools see
  cursor,   \* the stored timestamp
  acq,      \* per pool: the acquisition in progress
  permits,  \* history: the permits granted to callers that read this instant
  rewound   \* history: times whose window lost its count as the cursor went back

vars == <<mode, clock, cursor, acq, permits, rewound>>

Idle == [phase |-> "idle"]

Times == 0..MaxTime

Init ==
  /\ mode \in {"gcra", "fixed"}
  /\ clock = 0
  /\ cursor = NoCursor
  /\ acq = [w \in Workers |-> Idle]
  /\ permits = [t \in Times |-> 0]
  /\ rewound = {}

-----------------------------------------------------------------------------
(* The arithmetic of the two modes.                                        *)

AtLeast(a, b) == IF a < b THEN b ELSE a

\* rateInterval, at least one unit.
rateInterval == AtLeast(Period \div Limit, 1)

tolerance == rateInterval * (Burst - 1)

\* time.Truncate, and the count encoded after the window's start.
Window(t) == t - (t % Period)
Count(t)  == t - Window(t)

\* What a missing cursor is created with.
InitialAt(now) == IF mode = "gcra" THEN now ELSE Window(now) + 1

\* Mutants: GCRA refuses nobody; one permit too many.
RefusedNever(at, now) ==
  mode = "fixed" /\ Window(at) = Window(now) /\ Count(at) >= Limit

RefusedOneLate(at, now) ==
  IF mode = "gcra" THEN now < at - tolerance
  ELSE Window(at) = Window(now) /\ Count(at) > Limit

Refused(at, now) ==
  IF mode = "gcra" THEN now < at - tolerance
  ELSE Window(at) = Window(now) /\ Count(at) >= Limit

\* Mutant: the count of a window is not carried on.
NextAtForgetful(at, now) ==
  IF mode = "gcra" THEN AtLeast(at, now) + rateInterval ELSE Window(now) + 1

\* The cursor of the next permit; an other window, older or newer, starts over.
NextAt(at, now) ==
  IF mode = "gcra" THEN AtLeast(at, now) + rateInterval
  ELSE IF Window(at) = Window(now) THEN at + 1 ELSE Window(now) + 1

-----------------------------------------------------------------------------
(* One acquisition: read the clock, get or create, compare and swap.       *)

Begin(w) ==
  /\ acq[w] = Idle
  /\ acq' = [acq EXCEPT ![w] = [phase |-> "get", now |-> clock]]
  /\ UNCHANGED <<mode, clock, cursor, permits, rewound>>

Grant(w) == permits' = [permits EXCEPT ![acq[w].now] = @ + 1]

\* The cursor did not exist: creating it is the permit of a fixed window; in
\* GCRA mode it is read back like any other.
Create(w) ==
  /\ acq[w].phase = "get"
  /\ cursor = NoCursor
  /\ cursor' = InitialAt(acq[w].now)
  /\ IF mode = "fixed"
     THEN acq' = [acq EXCEPT ![w] = Idle] /\ Grant(w)
     ELSE /\ acq' = [acq EXCEPT ![w] = [phase |-> "swap", now |-> acq[w].now,
                                        expected |-> InitialAt(acq[w].now)]]
          /\ UNCHANGED permits
  /\ UNCHANGED <<mode, clock, rewound>>

Refuse(w) ==
  /\ acq[w].phase = "get"
  /\ cursor # NoCursor /\ Refused(cursor, acq[w].now)
  /\ acq' = [acq EXCEPT ![w] = Idle]
  /\ UNCHANGED <<mode, clock, cursor, permits, rewound>>

Get(w) ==
  /\ acq[w].phase = "get"
  /\ cursor # NoCursor /\ ~Refused(cursor, acq[w].now)
  /\ acq' = [acq EXCEPT ![w] = [phase |-> "swap", now |-> acq[w].now, expected |-> cursor]]
  /\ UNCHANGED <<mode, clock, cursor, permits, rewound>>

\* Mutant: the arrival time is written without comparing it.
SwapBlindly(w) ==
  /\ acq[w].phase = "swap"
  /\ mode = "gcra" \/ cursor = acq[w].expected
  /\ cursor' = NextAt(acq[w].expected, acq[w].now)
  /\ acq' = [acq EXCEPT ![w] = Idle]
  /\ Grant(w)
  /\ UNCHANGED <<mode, clock, rewound>>

\* ScheduleCursorAdvance succeeds.  When its answer is lost the caller sees an
\* error: the permit is spent and nobody starts.
Swap(w) ==
  LET next == NextAt(cursor, acq[w].now) IN
  /\ acq[w].phase = "swap"
  /\ cursor = acq[w].expected
  /\ cursor' = next
  /\ acq' = [acq EXCEPT ![w] = Idle]
  /\ Grant(w) \/ UNCHANGED permits
  /\ rewound' = IF mode = "fixed" /\ Window(next) < Window(cursor)
                THEN rewound \cup (Window(next)..Window(cursor)) ELSE rewound
  /\ UNCHANGED <<mode, clock>>

\* Mutant: the cursor is not read again.
SwapFailsForever(w) ==
  /\ acq[w].phase = "swap"
  /\ cursor # acq[w].expected
  /\ UNCHANGED vars

\* Another pool was faster: try again with the same now.
SwapFails(w) ==
  /\ acq[w].phase = "swap"
  /\ cursor # acq[w].expected
  /\ acq' = [acq EXCEPT ![w] = [phase |-> "get", now |-> acq[w].now]]
  /\ UNCHANGED <<mode, clock, cursor, permits, rewound>>

\* The store fails, or the context ends the retries.
Abort(w) ==
  /\ acq[w].phase \in {"get", "swap"}
  /\ acq' = [acq EXCEPT ![w] = Idle]
  /\ UNCHANGED <<mode, clock, cursor, permits, rewound>>

Tick ==
  /\ clock < MaxTime
  /\ clock' = clock + 1
  /\ UNCHANGED <<mode, cursor, acq, permits, rewound>>

Attempt(w) == Create(w) \/ Refuse(w) \/ Get(w) \/ Swap(w) \/ SwapFails(w)

Next == Tick \/ \E w \in Workers : Begin(w) \/ Attempt(w) \/ Abort(w)

Spec == Init /\ [][Next]_vars

FairSpec == Spec /\ \A w \in Workers : WF_vars(Attempt(w))

-----------------------------------------------------------------------------
(* Properties.                                                             *)

\* Every variable keeps its type; a fixed-window cursor never runs over into
\* the next window, where it would be read as a different count.
TypeOK ==
  /\ mode \in {"gcra", "fixed"}
  /\ clock \in Times
  /\ cursor \in Nat \cup {NoCursor}
  /\ acq \in [Workers -> {Idle} \cup [phase : {"get"}, now : 0..clock]
                       \cup [phase : {"swap"}, now : 0..clock, expected : Nat]]
  /\ permits \in [Times -> Nat]
  /\ rewound \subseteq Int
  /\ mode = "fixed" /\ cursor # NoCursor => Count(cursor) \in 1..Limit

\* The permits of callers that read an instant of S, numbered per instant.
Granted(S) == UNION {{t} \X (1..permits[t]) : t \in S}
Permits(S) == Cardinality(Granted(S))

\* GCRA: whatever the pools interleave and however late they finish, the
\* starts they time inside any period are at most the burst and one more per
\* interval that fits into it.
PeriodBound ==
  mode = "gcra" =>
    \A t \in Times :
      Permits({u \in Times : u >= t /\ u < t + Period})
        <= Burst + (Period - 1) \div rateInterval

\* Fixed window: at most Limit permits per window, except where a caller that
\* is late by a window set the cursor back: its old window is counted anew, and
\* so is every later one up to the window the cursor came from.
WindowBound ==
  mode = "fixed" =>
    \A t \in {u \in Times : Window(u) = u} :
      t \notin rewound => Permits({u \in Times : Window(u) = t}) <= Limit

\* The theoretical arrival time never moves back: no permit that was granted
\* is forgotten (GCRA mode).
CursorAdvances == [][mode = "gcra" /\ cursor # NoCursor => cursor' >= cursor]_cursor

\* The retry loop ends: the swap of a pool fails only when another pool got
\* its permit.
AttemptsEnd == \A w \in Workers : acq[w] # Idle ~> acq[w] = Idle
=============================================================================
