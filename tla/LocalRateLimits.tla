--------------------------- MODULE LocalRateLimits ---------------------------
(***************************************************************************)
(* waitForRatePermit inside one pool: a goroutine reserves every local     *)
(* rule at once, asks the global rules, and takes the reservation back     *)
(* when they refuse.  Goroutines with the same rate-gate signature take    *)
(* turns; those with different ones still share the rules that are keyed   *)
(* by the queue.                                                           *)
(***************************************************************************)
EXTENDS Integers, Sequences, FiniteSets

CONSTANTS
  Goroutines,  \* claimed jobs of one queue, each past the key semaphores
  GateOf,      \* [Goroutines -> signature]
  Rules,       \* the local rules: a sequence of [mode, limit, period, burst],
               \* normalised: mode gcra or fixed, period > 0, burst in 1..limit
  KeyOf,       \* KeyOf[g][i]: the rateRuleKey of the i-th rule
  MaxTime      \* bound on the clock

RateKeys == {KeyOf[g][i] : g \in Goroutines, i \in DOMAIN Rules}

VARIABLES
  clock,   \* config.Clock
  rates,   \* queueStates[q].rates: [tat, windowStart, count] per key
  gor,     \* per goroutine: phase, the instant read, previous and reserved states
  starts   \* history: the handlers started, with the instant they reserved at

vars == <<clock, rates, gor, starts>>

\* Zero times lie before every window and every arrival.
Fresh == [tat |-> -1, windowStart |-> -1, count |-> 0]

At(phase) == [phase |-> phase, now |-> 0, undo |-> << >>]

Init ==
  /\ clock = 0
  /\ rates = [k \in RateKeys |-> Fresh]
  /\ gor = [g \in Goroutines |-> At("ready")]
  /\ starts = {}

-----------------------------------------------------------------------------
(* One rule.                                                               *)

interval(rule)  == IF rule.period < rule.limit THEN 1 ELSE rule.period \div rule.limit
tolerance(rule) == interval(rule) * (rule.burst - 1)
Window(rule, t) == t - (t % rule.period)

Refuses(rule, state, now) ==
  IF rule.mode = "fixed"
  THEN state.windowStart = Window(rule, now) /\ state.count >= rule.limit
  ELSE state.tat - tolerance(rule) > now

Reserved(rule, state, now) ==
  IF rule.mode = "fixed"
  THEN [state EXCEPT !.windowStart = Window(rule, now),
                     !.count = IF state.windowStart = Window(rule, now) THEN @ + 1 ELSE 1]
  ELSE [state EXCEPT !.tat = (IF @ < now THEN now ELSE @) + interval(rule)]

\* Mutant: an arrival time is restored even if a later start has moved it.
RolledBackAlways(rule, state, undo) == undo.previous

\* A fixed window is restored as it was; an arrival time only if nobody
\* reserved after it.
RolledBack(rule, state, undo) ==
  IF rule.mode = "fixed" \/ state.tat = undo.reserved.tat THEN undo.previous ELSE state

-----------------------------------------------------------------------------
(* waitForRatePermit.                                                      *)

Inside == {"trying", "clocked", "reserved", "waiting"}

\* acquireRateGate: one goroutine per signature.
EnterGate(g) ==
  /\ gor[g].phase = "ready"
  /\ \A h \in Goroutines : GateOf[h] = GateOf[g] => gor[h].phase \notin Inside
  /\ gor' = [gor EXCEPT ![g].phase = "trying"]
  /\ UNCHANGED <<clock, rates, starts>>

ReadClock(g) ==
  /\ gor[g].phase = "trying"
  /\ gor' = [gor EXCEPT ![g].phase = "clocked", ![g].now = clock]
  /\ UNCHANGED <<clock, rates, starts>>

MayReserve(g) ==
  \A i \in DOMAIN Rules : ~Refuses(Rules[i], rates[KeyOf[g][i]], gor[g].now)

\* reserveLocalRateLimits, all rules under queueStateMu; a refusing rule
\* undoes the ones before it in the same critical section.
Reserve(g) ==
  /\ gor[g].phase = "clocked"
  /\ MayReserve(g)
  /\ LET undo == [i \in DOMAIN Rules |->
           [previous |-> rates[KeyOf[g][i]],
            reserved |-> Reserved(Rules[i], rates[KeyOf[g][i]], gor[g].now)]]
     IN /\ rates' = [k \in RateKeys |->
             IF \E i \in DOMAIN Rules : KeyOf[g][i] = k
             THEN undo[CHOOSE i \in DOMAIN Rules : KeyOf[g][i] = k].reserved
             ELSE rates[k]]
        /\ gor' = [gor EXCEPT ![g].phase = "reserved", ![g].undo = undo]
  /\ UNCHANGED <<clock, starts>>

\* A rule refuses: seen by localRateDelay the goroutine waits, seen only by
\* reserveLocalRateLimits it reads the clock again.
Refused(g) ==
  /\ gor[g].phase = "clocked"
  /\ ~MayReserve(g)
  /\ \E phase \in {"waiting", "trying"} : gor' = [gor EXCEPT ![g].phase = phase]
  /\ UNCHANGED <<clock, rates, starts>>

\* The global rules grant: the reservation stands for this start.
StartHandler(g) ==
  /\ gor[g].phase = "reserved"
  /\ gor' = [gor EXCEPT ![g] = At("started")]
  /\ starts' = starts \cup {[by |-> g, at |-> gor[g].now]}
  /\ UNCHANGED <<clock, rates>>

\* They refuse or fail: take the local reservations back and wait.
Rollback(g) ==
  /\ gor[g].phase = "reserved"
  /\ rates' = [k \in RateKeys |->
       IF \E i \in DOMAIN Rules : KeyOf[g][i] = k
       THEN LET i == CHOOSE n \in DOMAIN Rules : KeyOf[g][n] = k
            IN RolledBack(Rules[i], rates[k], gor[g].undo[i])
       ELSE rates[k]]
  /\ gor' = [gor EXCEPT ![g] = At("waiting")]
  /\ UNCHANGED <<clock, starts>>

\* waitForRateDelay: the timer or a policy change.
Wake(g) ==
  /\ gor[g].phase = "waiting"
  /\ gor' = [gor EXCEPT ![g].phase = "trying"]
  /\ UNCHANGED <<clock, rates, starts>>

\* The wait ends without a permit: claim lost or pool shutting down.
GiveUp(g) ==
  /\ gor[g].phase = "waiting"
  /\ gor' = [gor EXCEPT ![g] = At("gone")]
  /\ UNCHANGED <<clock, rates, starts>>

Tick ==
  /\ clock < MaxTime
  /\ clock' = clock + 1
  /\ UNCHANGED <<rates, gor, starts>>

Next ==
  \/ Tick
  \/ \E g \in Goroutines :
       \/ EnterGate(g) \/ ReadClock(g) \/ Reserve(g) \/ Refused(g)
       \/ StartHandler(g) \/ Rollback(g) \/ Wake(g) \/ GiveUp(g)

Spec == Init /\ [][Next]_vars

-----------------------------------------------------------------------------
(* Properties.                                                             *)

\* The state of the limiters and of the goroutines: a window never counts
\* more than its limit, and a reservation is held only until the global
\* rules have answered (reserveLocalRateLimits).
TypeOK ==
  /\ clock \in 0..MaxTime
  /\ \A k \in RateKeys : /\ rates[k].tat \in Int /\ rates[k].windowStart \in Int
                         /\ rates[k].count \in Nat
  /\ \A g \in Goroutines :
       /\ gor[g].phase \in Inside \cup {"ready", "started", "gone"}
       /\ gor[g].now \in 0..clock
       /\ (gor[g].undo # << >>) => (gor[g].phase = "reserved")
       /\ \A i \in DOMAIN Rules : rates[KeyOf[g][i]].count <= Rules[i].limit

\* The handlers charged to one key that started in [from, to).
Started(i, k, from, to) ==
  Cardinality({s \in starts : KeyOf[s.by][i] = k /\ s.at >= from /\ s.at < to})

\* Smooth local rules hold across rollbacks: however reservations and
\* rollbacks of goroutines of different gates overlap, any Period holds at
\* most the starts that GCRA's interval and burst allow.  The conditional
\* restore of the arrival time in rollbackLocked is what keeps it.
SmoothBound ==
  \A i \in DOMAIN Rules : Rules[i].mode = "gcra" =>
    \A k \in RateKeys, from \in 0..MaxTime :
      Started(i, k, from, from + Rules[i].period) <=
        1 + (Rules[i].period - 1 + tolerance(Rules[i])) \div interval(Rules[i])

\* "QueueRateLimit bounds handler starts over time": no window holds more
\* starts than the limit of the rule (reserveLocalRateLimits).  It is so when
\* the goroutines that share the rule's key share a rate gate; when they do
\* not, rollbackLocked restores a count read before the starts of the others.
WindowBound ==
  \A i \in DOMAIN Rules : Rules[i].mode = "fixed" =>
    \A k \in RateKeys, from \in 0..MaxTime :
      Started(i, k, Window(Rules[i], from), Window(Rules[i], from) + Rules[i].period)
        <= Rules[i].limit
=============================================================================
