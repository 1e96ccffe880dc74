----------------------------- MODULE RateProofs -----------------------------
(***************************************************************************)
(* What a global rate limit grants, for any number of pools, any limit,    *)
(* period and burst, and any delay between reading the clock and swapping  *)
(* the cursor.                                                             *)
(***************************************************************************)
EXTENDS RateLimitCursor, FiniteSetTheorems, TLAPS

-----------------------------------------------------------------------------
(* Arithmetic of intervals and windows.                                    *)

\* The spacing of permits and the credit of a burst are natural numbers
\* (rateInterval, AcquireRateLimit).
LEMMA IntervalType == rateInterval \in Nat \ {0} /\ tolerance \in Nat
  <1>1. Period \div Limit \in Int
    BY LimiterAssumption
  <1>2. rateInterval \in Nat \ {0}
    BY <1>1 DEF rateInterval, AtLeast
  <1>3. Burst - 1 \in Nat
    BY LimiterAssumption
  <1>q. QED BY <1>2, <1>3 DEF tolerance

\* As many intervals as fit into a length are at most its quotient.
LEMMA FitsQuotient ==
  ASSUME NEW k \in Int, NEW i \in Nat \ {0}, NEW n \in Nat, i * k <= n
  PROVE  k <= n \div i
  <1>1. n \div i \in Nat /\ n < i * ((n \div i) + 1)
    OBVIOUS
  <1>2. SUFFICES ASSUME k >= (n \div i) + 1 PROVE FALSE
    BY <1>1
  <1>3. i * k >= i * ((n \div i) + 1)
    BY <1>1, <1>2
  <1>q. QED BY <1>1, <1>3

\* A time lies in the window that starts less than a period before it
\* (time.Truncate).
LEMMA WindowOf ==
  ASSUME NEW t \in Nat
  PROVE  /\ Window(t) \in Nat /\ Window(t) <= t /\ t < Window(t) + Period
         /\ Count(t) = t % Period /\ Count(t) \in 0..(Period - 1)
  <1>1. t % Period \in 0..(Period - 1) /\ t = Period * (t \div Period) + (t % Period)
    BY LimiterAssumption
  <1>2. t \div Period \in Nat
    BY LimiterAssumption
  <1>3. Period * (t \div Period) \in Nat
    BY <1>2, LimiterAssumption
  <1>q. QED BY <1>1, <1>3, LimiterAssumption DEF Window, Count

\* Times less than a period after the start of a window are counted in it.
LEMMA WindowHolds ==
  ASSUME NEW t \in Nat, NEW n \in 0..(Period - 1)
  PROVE  Window(Window(t) + n) = Window(t) /\ Count(Window(t) + n) = n
  <1> DEFINE q == t \div Period
             u == Window(t) + n
  <1>1. q \in Nat /\ Window(t) = Period * q
    BY LimiterAssumption DEF Window
  <1>2. Period * q \in Nat
    BY <1>1, LimiterAssumption
  <1>3. u \in Nat
    BY <1>1, <1>2
  <1>4. /\ u \div Period \in Nat /\ u % Period \in 0..(Period - 1)
        /\ u = Period * (u \div Period) + (u % Period)
    BY <1>3, LimiterAssumption
  <1>5. u \div Period = q
    <2> DEFINE p == u \div Period
    <2>1. CASE p >= q + 1
      <3>1. Period * p >= Period * q + Period
        BY <1>1, <1>4, <2>1, LimiterAssumption
      <3>q. QED BY <1>1, <1>2, <1>4, <3>1, LimiterAssumption
    <2>2. CASE q >= p + 1
      <3>1. Period * q >= Period * p + Period
        BY <1>1, <1>4, <2>2, LimiterAssumption
      <3>q. QED BY <1>1, <1>2, <1>4, <3>1, LimiterAssumption
    <2>q. QED BY <1>1, <1>4, <2>1, <2>2
  <1>6. u % Period = n
    BY <1>1, <1>2, <1>4, <1>5
  <1>q. QED BY <1>3, <1>6, <1>1, <1>2 DEF Window, Count

-----------------------------------------------------------------------------
(* Counting permits.                                                       *)

\* Only so many permits have been granted that they can be counted.
PermitsFinite == IsFiniteSet(Granted(Times))

\* A part of the permits is finite and no more than the whole (Grant).
LEMMA PermitsOf ==
  ASSUME permits \in [Times -> Nat], PermitsFinite, NEW S \in SUBSET Times
  PROVE  IsFiniteSet(Granted(S)) /\ Permits(S) \in Nat
  <1>1. Granted(S) \in SUBSET Granted(Times)
    BY Zenon DEF Granted
  <1>2. IsFiniteSet(Granted(S))
    BY Zenon, <1>1, FS_Subset DEF PermitsFinite
  <1>q. QED BY Zenon, <1>2, FS_CardinalityType DEF Permits

\* More instants hold at least as many permits.
LEMMA PermitsMonotone ==
  ASSUME permits \in [Times -> Nat], PermitsFinite,
         NEW S \in SUBSET Times, NEW T \in SUBSET S
  PROVE  Permits(T) <= Permits(S)
  <1>1. Granted(T) \in SUBSET Granted(S)
    BY Zenon DEF Granted
  <1>2. IsFiniteSet(Granted(S))
    BY Zenon, PermitsOf
  <1>q. QED BY Zenon, <1>1, <1>2, FS_Subset DEF Permits

\* A permit is counted where its caller's instant is, and nowhere else.
LEMMA GrantCounts ==
  ASSUME permits \in [Times -> Nat], PermitsFinite, NEW n \in Times,
         permits' = [permits EXCEPT ![n] = @ + 1]
  PROVE  /\ PermitsFinite'
         /\ \A S \in SUBSET Times :
              Permits(S)' = IF n \in S THEN Permits(S) + 1 ELSE Permits(S)
  <1> DEFINE x == <<n, permits[n] + 1>>
  <1>1. ASSUME NEW S \in SUBSET Times, n \in S
        PROVE  Granted(S)' = Granted(S) \cup {x} /\ x \notin Granted(S)
    <2>1. permits[n] \in Nat /\ permits'[n] = permits[n] + 1
      BY Zenon
    <2>2. 1..permits'[n] = (1..permits[n]) \cup {permits[n] + 1}
      BY <2>1
    <2>3. \A u \in Times : u # n => permits'[u] = permits[u]
      BY Zenon
    <2>4. ASSUME NEW y
          PROVE  y \in Granted(S)' <=> y \in Granted(S) \cup {x}
      <3>1. y \in Granted(S)' <=> \E u \in S : y \in {u} \X (1..permits'[u])
        BY Zenon DEF Granted
      <3>2. y \in Granted(S) <=> \E u \in S : y \in {u} \X (1..permits[u])
        BY Zenon DEF Granted
      <3>3. \A u \in S : u # n => (1..permits'[u]) = (1..permits[u])
        BY Zenon, <2>3
      <3>4. y \in {n} \X (1..permits'[n]) <=> y \in {n} \X (1..permits[n]) \/ y = x
        BY <2>1, <2>2
      <3>q. QED BY Zenon, <1>1, <3>1, <3>2, <3>3, <3>4
    <2>5. x \notin Granted(S)
      BY <2>1 DEF Granted
    <2>q. QED BY Zenon, <2>4, <2>5
  <1>2. ASSUME NEW S \in SUBSET Times, n \notin S
        PROVE  Granted(S)' = Granted(S)
    BY Zenon, <1>2 DEF Granted
  <1>3. PermitsFinite'
    BY <1>1, FS_AddElement DEF PermitsFinite
  <1>4. ASSUME NEW S \in SUBSET Times
        PROVE  Permits(S)' = IF n \in S THEN Permits(S) + 1 ELSE Permits(S)
    <2>1. IsFiniteSet(Granted(S))
      BY Zenon, PermitsOf
    <2>2. CASE n \in S
      BY Zenon, <1>1, <2>1, <2>2, FS_AddElement DEF Permits
    <2>3. CASE n \notin S
      BY Zenon, <1>2, <2>3 DEF Permits
    <2>q. QED BY Zenon, <2>2, <2>3
  <1>q. QED BY Zenon, <1>3, <1>4

-----------------------------------------------------------------------------
(* The inductive invariant.                                                *)

From(t)     == {u \in Times : u >= t}
InPeriod(t) == {u \in Times : u >= t /\ u < t + Period}
InWindow(t) == {u \in Times : Window(u) = t}

\* Whoever is about to swap has seen a cursor that does not refuse it.
SwapReady ==
  \A w \in Workers :
    acq[w].phase = "swap" => ~Refused(acq[w].expected, acq[w].now)

\* GCRA: every permit read at t or later has moved the cursor on from t by an
\* interval.
ArrivalAhead ==
  mode = "gcra" =>
    \A t \in Times :
      Permits(From(t)) > 0 =>
        cursor # NoCursor /\ t + rateInterval * Permits(From(t)) <= cursor

\* Fixed window: the cursor counts the permits of its own window, none has
\* been granted for a later one, and no more than the limit for an earlier.
WindowCounts ==
  mode = "fixed" =>
    \A t \in Times : Window(t) = t /\ t \notin rewound =>
      /\ Permits(InWindow(t)) <= Limit
      /\ cursor = NoCursor => Permits(InWindow(t)) = 0
      /\ cursor # NoCursor /\ Window(cursor) = t => Permits(InWindow(t)) <= Count(cursor)
      /\ cursor # NoCursor /\ Window(cursor) < t => Permits(InWindow(t)) = 0

RateInv ==
  /\ TypeOK /\ PermitsFinite /\ SwapReady
  /\ ArrivalAhead /\ PeriodBound /\ WindowCounts

\* The next cursor of a caller that is not refused: in GCRA mode an interval
\* past both the old one and the caller's instant, in a fixed window the next
\* count or the first of the caller's window (AcquireRateLimit,
\* acquireFixedWindow).
LEMMA NextCursor ==
  ASSUME mode \in {"gcra", "fixed"}, NEW c \in Nat, NEW n \in Times, ~Refused(c, n),
         mode = "fixed" => Count(c) \in 1..Limit
  PROVE  /\ NextAt(c, n) \in Nat
         /\ mode = "gcra" => /\ c <= n + tolerance
                             /\ c + rateInterval <= NextAt(c, n)
                             /\ n + rateInterval <= NextAt(c, n)
         /\ mode = "fixed" =>
              /\ Window(NextAt(c, n)) = Window(n) /\ Count(NextAt(c, n)) \in 1..Limit
              /\ Window(c) = Window(n) => Count(NextAt(c, n)) = Count(c) + 1
              /\ Window(c) # Window(n) => Count(NextAt(c, n)) = 1
  <1>0. n \in Nat
    BY LimiterAssumption DEF Times
  <1>1. CASE mode = "gcra"
    <2>1. c <= n + tolerance
      BY <1>0, <1>1, IntervalType DEF Refused
    <2>q. QED BY <1>0, <1>1, <2>1, IntervalType DEF NextAt, AtLeast
  <1>2. CASE mode = "fixed" /\ Window(c) = Window(n)
    <2>1. Count(c) < Limit /\ Count(c) \in Nat
      BY <1>2, LimiterAssumption DEF Refused
    <2>2. c = Window(c) + Count(c) /\ Window(c) \in Nat
      BY WindowOf DEF Count
    <2>3. NextAt(c, n) = Window(c) + (Count(c) + 1)
      BY <1>2, <2>1, <2>2 DEF NextAt
    <2>4. Count(c) + 1 \in 0..(Period - 1)
      BY <2>1, LimiterAssumption
    <2>5. Window(NextAt(c, n)) = Window(c) /\ Count(NextAt(c, n)) = Count(c) + 1
      BY Zenon, <2>3, <2>4, WindowHolds
    <2>q. QED BY <1>2, <2>1, <2>2, <2>3, <2>5, LimiterAssumption
  <1>3. CASE mode = "fixed" /\ Window(c) # Window(n)
    <2>1. NextAt(c, n) = Window(n) + 1
      BY Zenon, <1>3 DEF NextAt
    <2>2. 1 \in 0..(Period - 1)
      BY LimiterAssumption
    <2>3. Window(NextAt(c, n)) = Window(n) /\ Count(NextAt(c, n)) = 1
      BY Zenon, <1>0, <2>1, <2>2, WindowHolds
    <2>4. Window(n) \in Nat
      BY Zenon, <1>0, WindowOf
    <2>5. Window(n) + 1 \in Nat /\ 1 \in 1..Limit
      BY <2>4, LimiterAssumption
    <2>q. QED BY Zenon, <1>3, <2>1, <2>3, <2>5
  <1>q. QED BY Zenon, <1>1, <1>2, <1>3

\* What a missing cursor is created with (ScheduleCursorGetOrCreate).
LEMMA FirstCursor ==
  ASSUME NEW n \in Times
  PROVE  /\ InitialAt(n) \in Nat
         /\ mode = "gcra" => InitialAt(n) = n /\ ~Refused(n, n)
         /\ mode # "gcra" => Window(InitialAt(n)) = Window(n) /\ Count(InitialAt(n)) = 1
  <1>0. n \in Nat /\ 1 \in 0..(Period - 1)
    BY LimiterAssumption DEF Times
  <1>1. Window(n) \in Nat /\ Window(Window(n) + 1) = Window(n) /\ Count(Window(n) + 1) = 1
    BY Zenon, <1>0, WindowOf, WindowHolds
  <1>2. CASE mode = "gcra"
    <2>1. ~(n < n - tolerance)
      BY <1>0, IntervalType
    <2>q. QED BY Zenon, <1>0, <1>2, <2>1 DEF InitialAt, Refused
  <1>3. CASE mode # "gcra"
    BY <1>1, <1>3 DEF InitialAt
  <1>q. QED BY Zenon, <1>2, <1>3

\* The acquisitions and the clock keep their types, and a caller that is about
\* to swap was not refused.
LEMMA TypeStep ==
  ASSUME TypeOK, SwapReady, [Next]_vars
  PROVE  TypeOK' /\ SwapReady'
  <1> DEFINE Gets  == [phase : {"get"}, now : 0..clock]
             Swaps == [phase : {"swap"}, now : 0..clock, expected : Nat]
  <1>0. 0..clock \subseteq Times /\ clock \in 0..clock
    BY LimiterAssumption DEF TypeOK, Times
  <1>1. ASSUME NEW w \in Workers, Begin(w)
        PROVE  TypeOK' /\ SwapReady'
    <2>1. acq' = [acq EXCEPT ![w] = [phase |-> "get", now |-> clock]]
          /\ UNCHANGED <<mode, clock, cursor, permits, rewound>>
      BY Zenon, <1>1 DEF Begin
    <2>2. [phase |-> "get", now |-> clock] \in Gets
      BY Zenon, <1>0
    <2>3. TypeOK'
      BY Zenon, <2>1, <2>2 DEF TypeOK
    <2>4. SwapReady'
      BY Zenon, <2>1 DEF SwapReady, TypeOK, Refused
    <2>q. QED BY Zenon, <2>3, <2>4
  <1>2. ASSUME NEW w \in Workers, Create(w)
        PROVE  TypeOK' /\ SwapReady'
    <2>0. acq[w] \in Gets /\ acq[w].now \in Times
      BY <1>0, <1>2 DEF Create, TypeOK, Idle
    <2>1. /\ InitialAt(acq[w].now) \in Nat
          /\ mode = "fixed" => Count(InitialAt(acq[w].now)) = 1
      BY Zenon, <2>0, FirstCursor
    <2>2. /\ cursor' = InitialAt(acq[w].now) /\ UNCHANGED <<mode, clock, rewound>>
          /\ permits' \in [Times -> Nat]
      BY <1>2, <2>0 DEF Create, Grant, TypeOK
    <2>3. CASE mode = "fixed"
      <3>1. acq' = [acq EXCEPT ![w] = Idle]
        BY Zenon, <1>2, <2>3 DEF Create
      <3>2. TypeOK'
        BY <2>1, <2>2, <2>3, <3>1, LimiterAssumption DEF TypeOK
      <3>3. SwapReady'
        BY Zenon, <2>2, <3>1 DEF SwapReady, TypeOK, Idle, Refused
      <3>q. QED BY Zenon, <3>2, <3>3
    <2>4. CASE mode # "fixed"
      <3>1. acq' = [acq EXCEPT ![w] = [phase |-> "swap", now |-> acq[w].now,
                                       expected |-> InitialAt(acq[w].now)]]
        BY Zenon, <1>2, <2>4 DEF Create
      <3>2. [phase |-> "swap", now |-> acq[w].now, expected |-> InitialAt(acq[w].now)] \in Swaps
        BY Zenon, <2>0, <2>1
      <3>3. TypeOK'
        BY Zenon, <2>1, <2>2, <2>4, <3>1, <3>2 DEF TypeOK
      <3>4. ~Refused(InitialAt(acq[w].now), acq[w].now)
        BY Zenon, <2>0, <2>4, FirstCursor DEF TypeOK
      <3>5. SwapReady'
        BY Zenon, <2>2, <3>1, <3>4 DEF SwapReady, TypeOK, Refused
      <3>q. QED BY Zenon, <3>3, <3>5
    <2>q. QED BY Zenon, <2>3, <2>4
  <1>3. ASSUME NEW w \in Workers, Refuse(w) \/ Abort(w)
        PROVE  TypeOK' /\ SwapReady'
    <2>1. acq' = [acq EXCEPT ![w] = Idle] /\ UNCHANGED <<mode, clock, cursor, permits, rewound>>
      BY Zenon, <1>3 DEF Refuse, Abort
    <2>2. TypeOK'
      BY Zenon, <2>1 DEF TypeOK
    <2>3. SwapReady'
      BY Zenon, <2>1 DEF SwapReady, TypeOK, Idle, Refused
    <2>q. QED BY Zenon, <2>2, <2>3
  <1>4. ASSUME NEW w \in Workers, Get(w)
        PROVE  TypeOK' /\ SwapReady'
    <2>0. acq[w] \in Gets /\ cursor \in Nat
      BY <1>4 DEF Get, TypeOK, Idle
    <2>1. /\ acq' = [acq EXCEPT ![w] = [phase |-> "swap", now |-> acq[w].now, expected |-> cursor]]
          /\ UNCHANGED <<mode, clock, cursor, permits, rewound>>
          /\ ~Refused(cursor, acq[w].now)
      BY Zenon, <1>4 DEF Get
    <2>2. [phase |-> "swap", now |-> acq[w].now, expected |-> cursor] \in Swaps
      BY Zenon, <2>0
    <2>3. TypeOK'
      BY Zenon, <2>1, <2>2 DEF TypeOK
    <2>4. SwapReady'
      BY Zenon, <2>1 DEF SwapReady, TypeOK, Refused
    <2>q. QED BY Zenon, <2>3, <2>4
  <1>5. ASSUME NEW w \in Workers, Swap(w)
        PROVE  TypeOK' /\ SwapReady'
    <2>0. acq[w] \in Swaps /\ acq[w].now \in Times /\ cursor = acq[w].expected /\ cursor \in Nat
      BY <1>0, <1>5 DEF Swap, TypeOK, Idle
    <2>1. /\ acq' = [acq EXCEPT ![w] = Idle] /\ UNCHANGED <<mode, clock>>
          /\ cursor' = NextAt(cursor, acq[w].now)
          /\ permits' \in [Times -> Nat]
      BY <1>5, <2>0 DEF Swap, Grant, TypeOK
    <2>2. ~Refused(cursor, acq[w].now) /\ (mode = "fixed" => Count(cursor) \in 1..Limit)
      BY <1>5, <2>0, LimiterAssumption DEF Swap, SwapReady, TypeOK
    <2>3. cursor' \in Nat /\ (mode = "fixed" => Count(cursor') \in 1..Limit)
      BY Zenon, <2>0, <2>1, <2>2, NextCursor DEF TypeOK
    <2>4. rewound' \subseteq Int
      <3>1. Window(cursor) \in Int /\ Window(NextAt(cursor, acq[w].now)) \in Int
        BY <2>0, <2>1, <2>3, WindowOf
      <3>2. Window(NextAt(cursor, acq[w].now))..Window(cursor) \subseteq Int
        BY <3>1
      <3>q. QED BY Zenon, <1>5, <3>2 DEF Swap, TypeOK
    <2>5. TypeOK'
      BY Zenon, <2>1, <2>3, <2>4 DEF TypeOK
    <2>6. SwapReady'
      BY Zenon, <2>1 DEF SwapReady, TypeOK, Idle, Refused
    <2>q. QED BY Zenon, <2>5, <2>6
  <1>6. ASSUME NEW w \in Workers, SwapFails(w)
        PROVE  TypeOK' /\ SwapReady'
    <2>0. acq[w] \in Swaps
      BY <1>6 DEF SwapFails, TypeOK, Idle
    <2>1. /\ acq' = [acq EXCEPT ![w] = [phase |-> "get", now |-> acq[w].now]]
          /\ UNCHANGED <<mode, clock, cursor, permits, rewound>>
      BY Zenon, <1>6 DEF SwapFails
    <2>2. [phase |-> "get", now |-> acq[w].now] \in Gets
      BY Zenon, <2>0
    <2>3. TypeOK'
      BY Zenon, <2>1, <2>2 DEF TypeOK
    <2>4. SwapReady'
      BY Zenon, <2>1 DEF SwapReady, TypeOK, Refused
    <2>q. QED BY Zenon, <2>3, <2>4
  <1>7. CASE Tick
    <2>1. /\ clock' \in Times /\ UNCHANGED <<mode, cursor, acq, permits, rewound>>
          /\ 0..clock \subseteq 0..(clock')
      BY <1>7, LimiterAssumption DEF Tick, TypeOK, Times
    <2>2. acq' \in [Workers -> {Idle} \cup [phase : {"get"}, now : 0..clock']
                       \cup [phase : {"swap"}, now : 0..clock', expected : Nat]]
      <3>1. Gets \subseteq [phase : {"get"}, now : 0..clock']
        BY Zenon, <2>1
      <3>2. Swaps \subseteq [phase : {"swap"}, now : 0..clock', expected : Nat]
        BY Zenon, <2>1
      <3>q. QED BY Zenon, <2>1, <3>1, <3>2 DEF TypeOK
    <2>3. TypeOK'
      BY Zenon, <2>1, <2>2 DEF TypeOK
    <2>4. SwapReady'
      BY Zenon, <2>1 DEF SwapReady, Refused
    <2>q. QED BY Zenon, <2>3, <2>4
  <1>8. CASE UNCHANGED vars
    <2>1. TypeOK'
      BY Zenon, <1>8 DEF vars, TypeOK
    <2>q. QED BY Zenon, <1>8, <2>1 DEF vars, SwapReady, Refused
  <1>q. QED BY Zenon, <1>1, <1>2, <1>3, <1>4, <1>5, <1>6, <1>7, <1>8 DEF Next, Attempt

\* A swap in GCRA mode keeps the cursor ahead of every permit, and so the
\* number of permits in a period bounded: a caller that is not refused reads an
\* instant at most the tolerance before the cursor (AcquireRateLimit).
LEMMA GcraSwap ==
  ASSUME TypeOK, PermitsFinite, ArrivalAhead, PeriodBound, mode = "gcra", mode' = mode,
         NEW n \in Times, cursor \in Nat, cursor' \in Nat,
         cursor <= n + tolerance, cursor + rateInterval <= cursor',
         n + rateInterval <= cursor',
         permits' = permits \/ permits' = [permits EXCEPT ![n] = @ + 1]
  PROVE  ArrivalAhead' /\ PeriodBound'
  <1>0. /\ rateInterval \in Nat \ {0} /\ n \in Nat /\ cursor # NoCursor /\ cursor' # NoCursor
        /\ permits \in [Times -> Nat] /\ Times \subseteq Nat /\ Period \in Nat \ {0} /\ Burst \in Nat
    BY IntervalType, LimiterAssumption DEF TypeOK, Times
  <1>1. ASSUME NEW t \in Times
        PROVE  /\ From(t) \in SUBSET Times /\ InPeriod(t) \in SUBSET From(t)
               /\ Permits(From(t)) \in Nat /\ Permits(InPeriod(t)) \in Nat
               /\ Permits(InPeriod(t)) <= Permits(From(t))
    <2>1. From(t) \in SUBSET Times /\ InPeriod(t) \in SUBSET From(t)
      BY Zenon DEF From, InPeriod
    <2>2. InPeriod(t) \in SUBSET Times
      BY Zenon, <2>1
    <2>q. QED BY Zenon, <1>0, <2>1, <2>2, PermitsOf, PermitsMonotone
  <1>2. ASSUME NEW t \in Times
        PROVE  /\ Permits(From(t)) > 0 => t + rateInterval * Permits(From(t)) <= cursor
               /\ Permits(InPeriod(t)) <= Burst + (Period - 1) \div rateInterval
    BY Zenon DEF ArrivalAhead, PeriodBound, InPeriod
  <1>3. CASE permits' = permits
    <2>1. \A S : Permits(S)' = Permits(S)
      BY Zenon, <1>3 DEF Permits, Granted
    <2>2. ASSUME NEW t \in Times, Permits(From(t))' > 0
          PROVE  t + rateInterval * Permits(From(t))' <= cursor'
      <3>1. PICK k \in Nat : k = Permits(From(t))
        BY Zenon, <1>1
      <3>2. rateInterval * k \in Nat
        BY <1>0
      <3>q. QED BY <1>0, <1>2, <2>1, <2>2, <3>1, <3>2
    <2>3. ArrivalAhead'
      BY Zenon, <1>0, <2>2 DEF ArrivalAhead
    <2>4. PeriodBound'
      BY Zenon, <1>2, <2>1 DEF PeriodBound, InPeriod
    <2>q. QED BY Zenon, <2>3, <2>4
  <1>4. CASE permits' = [permits EXCEPT ![n] = @ + 1]
    <2>1. \A S \in SUBSET Times :
            Permits(S)' = IF n \in S THEN Permits(S) + 1 ELSE Permits(S)
      BY Zenon, <1>0, <1>4, GrantCounts
    <2>2. ASSUME NEW t \in Times, Permits(From(t))' > 0
          PROVE  t + rateInterval * Permits(From(t))' <= cursor'
      <3>1. PICK k \in Nat : k = Permits(From(t))
        BY Zenon, <1>1
      <3>2. rateInterval * k \in Nat /\ rateInterval * (k + 1) = rateInterval * k + rateInterval
        BY <1>0
      <3>3. k > 0 => t + rateInterval * k <= cursor
        BY Zenon, <1>2, <3>1
      <3>4. CASE n \in From(t)
        <4>1. Permits(From(t))' = k + 1 /\ t <= n
          BY Zenon, <1>1, <2>1, <3>1, <3>4 DEF From
        <4>2. CASE k = 0
          BY <1>0, <4>1, <4>2
        <4>3. CASE k > 0
          BY <1>0, <3>2, <3>3, <4>1, <4>3
        <4>q. QED BY <4>2, <4>3
      <3>5. CASE n \notin From(t)
        <4>1. Permits(From(t))' = k
          BY Zenon, <1>1, <2>1, <3>1, <3>5
        <4>q. QED BY <1>0, <2>2, <3>2, <3>3, <4>1
      <3>q. QED BY Zenon, <3>4, <3>5
    <2>3. ArrivalAhead'
      BY Zenon, <1>0, <2>2 DEF ArrivalAhead
    <2>4. ASSUME NEW t \in Times
          PROVE  Permits(InPeriod(t))' <= Burst + (Period - 1) \div rateInterval
      <3>0. InPeriod(t) \in SUBSET Times
        BY Zenon DEF InPeriod
      <3>1. CASE n \notin InPeriod(t)
        BY Zenon, <1>2, <2>1, <3>0, <3>1
      <3>2. CASE n \in InPeriod(t)
        <4>1. PICK k \in Nat, m \in Nat :
                k = Permits(From(t)) /\ m = Permits(InPeriod(t)) /\ m <= k
          BY Zenon, <1>1
        <4>2. Permits(InPeriod(t))' = m + 1
          BY Zenon, <2>1, <3>0, <3>2, <4>1
        <4>3. (Period - 1) \div rateInterval \in Nat /\ Period - 1 \in Nat /\ Burst >= 1
          BY <1>0, LimiterAssumption
        <4>4. CASE k = 0
          BY <4>1, <4>2, <4>3, <4>4, <1>0
        <4>5. CASE k > 0
          <5>1. t + rateInterval * k <= cursor /\ n <= t + Period - 1
            BY <1>0, <1>2, <3>2, <4>1, <4>5 DEF InPeriod
          <5>2. /\ rateInterval * (k - (Burst - 1)) = rateInterval * k - rateInterval * (Burst - 1)
                /\ rateInterval * k \in Nat /\ rateInterval * (Burst - 1) \in Int
            BY <1>0
          <5>3. rateInterval * (k - (Burst - 1)) <= Period - 1
            BY <1>0, <5>1, <5>2 DEF tolerance
          <5>4. k - (Burst - 1) <= (Period - 1) \div rateInterval
            <6>1. PICK d \in Int, r \in Nat : d = k - (Burst - 1) /\ r = Period - 1
              BY <1>0, <4>3
            <6>2. d <= r \div rateInterval
              BY Zenon, <1>0, <5>3, <6>1, FitsQuotient
            <6>q. QED BY Zenon, <6>1, <6>2
          <5>q. QED BY <1>0, <4>1, <4>2, <4>3, <5>4
        <4>q. QED BY <4>4, <4>5
      <3>q. QED BY Zenon, <3>1, <3>2
    <2>5. PeriodBound'
      BY Zenon, <2>4 DEF PeriodBound, InPeriod
    <2>q. QED BY Zenon, <2>3, <2>5
  <1>q. QED BY Zenon, <1>3, <1>4

\* A permit of a fixed window is counted by the cursor, which is in the window
\* of the caller afterwards; going back to it gives up the counts of all the
\* windows it goes back over (acquireFixedWindow).
LEMMA FixedSwap ==
  ASSUME TypeOK, PermitsFinite, WindowCounts, mode = "fixed", mode' = mode,
         NEW n \in Times, cursor' \in Nat,
         Window(cursor') = Window(n), Count(cursor') \in 1..Limit,
         cursor # NoCursor /\ Window(cursor) = Window(n) => Count(cursor') = Count(cursor) + 1,
         rewound \subseteq rewound',
         cursor # NoCursor /\ Window(n) < Window(cursor) =>
           Window(n)..Window(cursor) \subseteq rewound',
         permits' = permits \/ permits' = [permits EXCEPT ![n] = @ + 1]
  PROVE  WindowCounts'
  <1>0. /\ permits \in [Times -> Nat] /\ Times \subseteq Nat /\ Limit \in Nat
        /\ cursor' # NoCursor /\ Window(n) \in Nat /\ Count(cursor') \in Nat
        /\ cursor # NoCursor => Window(cursor) \in Nat /\ Count(cursor) \in Nat
    <2>1. Times \subseteq Nat /\ n \in Nat
      BY LimiterAssumption DEF Times
    <2>2. cursor # NoCursor => cursor \in Nat /\ Window(cursor) \in Nat /\ Count(cursor) \in Nat
      BY WindowOf, LimiterAssumption DEF TypeOK
    <2>3. Window(n) \in Nat
      BY Zenon, <2>1, WindowOf
    <2>q. QED BY <2>1, <2>2, <2>3, LimiterAssumption DEF TypeOK
  <1> SUFFICES ASSUME NEW t \in Times, Window(t) = t, t \notin rewound'
               PROVE  /\ Permits(InWindow(t))' <= Limit
                      /\ Window(n) = t => Permits(InWindow(t))' <= Count(cursor')
                      /\ Window(n) < t => Permits(InWindow(t))' = 0
    BY Zenon, <1>0 DEF WindowCounts
  <1>1. InWindow(t) \in SUBSET Times /\ (n \in InWindow(t) <=> Window(n) = t)
    BY Zenon DEF InWindow
  <1>2. PICK m \in Nat : m = Permits(InWindow(t))
    BY Zenon, <1>0, <1>1, PermitsOf
  <1>3. /\ m <= Limit
        /\ cursor = NoCursor => m = 0
        /\ cursor # NoCursor /\ Window(cursor) = t => m <= Count(cursor)
        /\ cursor # NoCursor /\ Window(cursor) < t => m = 0
    BY Zenon, <1>2 DEF WindowCounts
  <1>4. PICK k \in Nat : /\ k = Permits(InWindow(t))' /\ k <= m + 1
                         /\ Window(n) # t => k = m
    <2>1. CASE permits' = permits
      <3>1. Permits(InWindow(t))' = m
        BY Zenon, <1>2, <2>1 DEF Permits, Granted
      <3>q. QED BY <3>1
    <2>2. CASE permits' = [permits EXCEPT ![n] = @ + 1]
      <3>1. Permits(InWindow(t))' = IF n \in InWindow(t) THEN m + 1 ELSE m
        BY ZenonT(30), <1>0, <1>1, <1>2, <2>2, GrantCounts
      <3>q. QED BY <1>1, <3>1
    <2>q. QED BY Zenon, <2>1, <2>2
  <1>5. CASE Window(n) = t
    <2>1. cursor # NoCursor => ~(Window(cursor) > t)
      BY <1>0, <1>5
    <2>2. CASE cursor # NoCursor /\ Window(cursor) = t
      BY <1>0, <1>3, <1>4, <1>5, <2>2
    <2>3. CASE cursor = NoCursor \/ Window(cursor) < t
      <3>1. m = 0
        BY Zenon, <1>3, <2>3
      <3>q. QED BY <1>0, <1>4, <1>5, <3>1
    <2>q. QED BY <1>0, <2>1, <2>2, <2>3
  <1>6. CASE Window(n) < t
    <2>1. cursor # NoCursor => Window(cursor) < t
      BY <1>0, <1>6
    <2>q. QED BY <1>0, <1>3, <1>4, <1>6, <2>1
  <1>7. CASE Window(n) > t
    BY <1>0, <1>3, <1>4, <1>7
  <1>q. QED BY <1>0, <1>5, <1>6, <1>7

\* Every step keeps the invariant: only Swap, and Create for a fixed window,
\* grant permits.
LEMMA RateStep ==
  ASSUME RateInv, [Next]_vars
  PROVE  RateInv'
  <1>1. TypeOK' /\ SwapReady'
    BY Zenon, TypeStep DEF RateInv
  <1>2. CASE UNCHANGED <<mode, cursor, permits, rewound>>
    <2>1. \A S : Permits(S)' = Permits(S)
      BY Zenon, <1>2 DEF Permits, Granted
    <2>2. PermitsFinite'
      BY Zenon, <1>2 DEF RateInv, PermitsFinite, Granted
    <2>3. ArrivalAhead'
      BY Zenon, <1>2, <2>1 DEF RateInv, ArrivalAhead
    <2>4. PeriodBound'
      BY Zenon, <1>2, <2>1 DEF RateInv, PeriodBound
    <2>5. WindowCounts'
      BY Zenon, <1>2, <2>1 DEF RateInv, WindowCounts
    <2>q. QED BY Zenon, <1>1, <2>2, <2>3, <2>4, <2>5 DEF RateInv
  <1>3. ASSUME NEW w \in Workers, Create(w)
        PROVE  RateInv'
    <2>0. acq[w].now \in Times /\ cursor = NoCursor /\ mode' = mode /\ rewound' = rewound
      BY <1>3, LimiterAssumption DEF RateInv, TypeOK, Create, Times, Idle
    <2>1. PICK n \in Times : n = acq[w].now /\ cursor' = InitialAt(n)
      BY Zenon, <1>3, <2>0 DEF Create
    <2>2. CASE mode = "gcra"
      <3>1. permits' = permits
        BY Zenon, <1>3, <2>2 DEF Create
      <3>2. \A S : Permits(S)' = Permits(S)
        BY Zenon, <3>1 DEF Permits, Granted
      <3>3. PermitsFinite'
        BY Zenon, <3>1 DEF RateInv, PermitsFinite, Granted
      <3>4. ArrivalAhead'
        BY Zenon, <2>0, <2>2, <3>2 DEF RateInv, ArrivalAhead
      <3>5. PeriodBound'
        BY Zenon, <2>0, <3>2 DEF RateInv, PeriodBound
      <3>6. WindowCounts'
        BY Zenon, <2>0, <2>2 DEF WindowCounts
      <3>q. QED BY Zenon, <1>1, <3>3, <3>4, <3>5, <3>6 DEF RateInv
    <2>3. CASE mode = "fixed"
      <3>1. permits' = [permits EXCEPT ![n] = @ + 1]
        BY Zenon, <1>3, <2>1, <2>3 DEF Create, Grant
      <3>2. PermitsFinite'
        BY Zenon, <3>1, GrantCounts DEF RateInv, TypeOK
      <3>3. cursor' \in Nat /\ Window(cursor') = Window(n) /\ Count(cursor') \in 1..Limit
        BY <2>1, <2>3, FirstCursor, LimiterAssumption
      <3>4. WindowCounts'
        BY Zenon, <2>0, <2>3, <3>1, <3>3, FixedSwap DEF RateInv
      <3>5. ArrivalAhead' /\ PeriodBound'
        BY Zenon, <2>0, <2>3 DEF ArrivalAhead, PeriodBound
      <3>q. QED BY Zenon, <1>1, <3>2, <3>4, <3>5 DEF RateInv
    <2>q. QED BY Zenon, <2>2, <2>3 DEF RateInv, TypeOK
  <1>4. ASSUME NEW w \in Workers, Swap(w)
        PROVE  RateInv'
    <2>0. /\ acq[w].now \in Times /\ cursor \in Nat /\ mode' = mode /\ cursor # NoCursor
          /\ ~Refused(cursor, acq[w].now)
      BY <1>4, LimiterAssumption DEF RateInv, TypeOK, SwapReady, Swap, Times, Idle
    <2>1. PICK n \in Times : n = acq[w].now
      BY Zenon, <2>0
    <2>2. /\ cursor' = NextAt(cursor, n)
          /\ permits' = permits \/ permits' = [permits EXCEPT ![n] = @ + 1]
          /\ rewound' = IF mode = "fixed" /\ Window(cursor') < Window(cursor)
                        THEN rewound \cup (Window(cursor')..Window(cursor)) ELSE rewound
      BY Zenon, <1>4, <2>1 DEF Swap, Grant
    <2>3. mode = "fixed" => Count(cursor) \in 1..Limit
      BY Zenon, <2>0 DEF RateInv, TypeOK
    <2>4. PermitsFinite'
      <3>1. CASE permits' = permits
        BY Zenon, <3>1 DEF RateInv, PermitsFinite, Granted
      <3>2. CASE permits' = [permits EXCEPT ![n] = @ + 1]
        BY Zenon, <3>2, GrantCounts DEF RateInv, TypeOK
      <3>q. QED BY Zenon, <2>2, <3>1, <3>2
    <2>5. CASE mode = "gcra"
      <3>1. /\ cursor' \in Nat /\ cursor <= n + tolerance
            /\ cursor + rateInterval <= cursor' /\ n + rateInterval <= cursor'
        BY Zenon, <2>0, <2>1, <2>2, <2>3, <2>5, NextCursor
      <3>2. ArrivalAhead' /\ PeriodBound'
        BY Zenon, <2>0, <2>2, <2>5, <3>1, GcraSwap DEF RateInv
      <3>3. WindowCounts'
        BY Zenon, <2>0, <2>5 DEF WindowCounts
      <3>q. QED BY Zenon, <1>1, <2>4, <3>2, <3>3 DEF RateInv
    <2>6. CASE mode = "fixed"
      <3>1. /\ cursor' \in Nat /\ Window(cursor') = Window(n) /\ Count(cursor') \in 1..Limit
            /\ Window(cursor) = Window(n) => Count(cursor') = Count(cursor) + 1
        BY Zenon, <2>0, <2>1, <2>2, <2>3, <2>6, NextCursor
      <3>2. /\ rewound \subseteq rewound'
            /\ Window(n) < Window(cursor) => Window(n)..Window(cursor) \subseteq rewound'
        BY Zenon, <2>2, <2>6, <3>1
      <3>3. WindowCounts'
        BY Zenon, <2>0, <2>2, <2>6, <3>1, <3>2, FixedSwap DEF RateInv
      <3>4. ArrivalAhead' /\ PeriodBound'
        BY Zenon, <2>0, <2>6 DEF ArrivalAhead, PeriodBound
      <3>q. QED BY Zenon, <1>1, <2>4, <3>3, <3>4 DEF RateInv
    <2>q. QED BY Zenon, <2>5, <2>6 DEF RateInv, TypeOK
  <1>q. QED BY Zenon, <1>2, <1>3, <1>4
        DEF Next, Attempt, Begin, Refuse, Get, SwapFails, Abort, Tick, vars

\* The invariant holds in every state (AcquireRateLimit).
LEMMA RateInvariant == Spec => []RateInv
  <1>1. Init => RateInv
    <2> SUFFICES ASSUME Init PROVE RateInv
      BY Zenon
    <2>1. TypeOK
      BY LimiterAssumption DEF Init, TypeOK, Times
    <2>2. \A S \in SUBSET Times : Granted(S) = {}
      <3> SUFFICES ASSUME NEW S \in SUBSET Times PROVE Granted(S) = {}
        BY Zenon
      <3>1. \A t \in S : 1..permits[t] = {}
        BY DEF Init
      <3>q. QED BY Zenon, <3>1 DEF Granted
    <2>3. \A S \in SUBSET Times : Permits(S) = 0
      BY Zenon, <2>2, FS_EmptySet DEF Permits
    <2>4. PermitsFinite
      BY Zenon, <2>2, FS_EmptySet DEF PermitsFinite
    <2>5. SwapReady
      BY Zenon DEF Init, SwapReady, Idle
    <2>6. ArrivalAhead
      BY <2>3 DEF ArrivalAhead, From
    <2>7. PeriodBound
      <3>1. Burst + (Period - 1) \div rateInterval \in Nat
        BY IntervalType, LimiterAssumption
      <3>q. QED BY <2>3, <3>1 DEF PeriodBound
    <2>8. WindowCounts
      BY <2>3, LimiterAssumption DEF Init, WindowCounts, InWindow
    <2>q. QED BY Zenon, <2>1, <2>4, <2>5, <2>6, <2>7, <2>8 DEF RateInv
  <1>q. QED BY <1>1, RateStep, PTL DEF Spec

-----------------------------------------------------------------------------
(* The theorems.                                                           *)

\* The count of a fixed window never runs over into the next window, where it
\* would be read as another count (acquireFixedWindow).
THEOREM CursorWellFormed == Spec => []TypeOK
  <1>1. RateInv => TypeOK
    BY Zenon DEF RateInv
  <1>q. QED BY <1>1, RateInvariant, PTL

\* GCRA: however the pools interleave and however late they finish, at most
\* Burst + (Period - 1) \div interval starts are timed inside one period
\* (AcquireRateLimit).
THEOREM PeriodBounded == Spec => []PeriodBound
  <1>1. RateInv => PeriodBound
    BY Zenon DEF RateInv
  <1>q. QED BY <1>1, RateInvariant, PTL

\* Fixed window: no window holds more permits than the limit unless a caller
\* that was late by a window set the cursor back over it (acquireFixedWindow).
THEOREM WindowBounded == Spec => []WindowBound
  <1>1. RateInv => WindowBound
    BY Zenon DEF RateInv, WindowCounts, WindowBound, InWindow
  <1>q. QED BY <1>1, RateInvariant, PTL

\* The theoretical arrival time never moves back: no granted permit is
\* forgotten (ScheduleCursorAdvance after a compare).
THEOREM ArrivalsAdvance == Spec => CursorAdvances
  <1>1. ASSUME RateInv, [Next]_vars
        PROVE  [mode = "gcra" /\ cursor # NoCursor => cursor' >= cursor]_cursor
    <2> SUFFICES ASSUME mode = "gcra", cursor # NoCursor, cursor' # cursor
                 PROVE  cursor' >= cursor
      BY Zenon
    <2>1. PICK w \in Workers : Swap(w)
      BY Zenon, <1>1 DEF Next, Attempt, Begin, Create, Refuse, Get, SwapFails, Abort, Tick, vars
    <2>2. /\ acq[w].now \in Times /\ cursor \in Nat /\ ~Refused(cursor, acq[w].now)
          /\ cursor' = NextAt(cursor, acq[w].now)
      BY <1>1, <2>1, LimiterAssumption DEF RateInv, TypeOK, SwapReady, Swap, Times, Idle
    <2>3. cursor' \in Nat /\ cursor + rateInterval <= cursor'
      BY Zenon, <2>2, NextCursor
    <2>q. QED BY <2>2, <2>3, IntervalType
  <1>q. QED BY <1>1, RateInvariant, PTL DEF Spec, CursorAdvances
=============================================================================
