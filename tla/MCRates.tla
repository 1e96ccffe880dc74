------------------------------- MODULE MCRates -------------------------------
(***************************************************************************)
(* The two places a rate limit is kept: a cursor that pools share through  *)
(* the store (RateLimitCursor) and the counters inside one pool            *)
(* (LocalRateLimits).  A behaviour is about one of the two scopes.         *)
(***************************************************************************)
EXTENDS RateLimitCursor

CONSTANTS w1, w2, LocalMaxTime

VARIABLES scope, localClock, rates, gor, starts

localVars == <<localClock, rates, gor, starts>>

\* Four jobs of two kinds in one queue; the kind is also the rate gate,
\* because a rule of the queue is keyed by it.
Four == 1..4
Kind == <<"mail", "index", "mail", "index">>

\* A window per kind and a smooth rule for the whole queue.
WindowAndSmooth ==
  <<[mode |-> "fixed", limit |-> 1, period |-> 3, burst |-> 1],
    [mode |-> "gcra", limit |-> 2, period |-> 4, burst |-> 2]>>
KindAndQueue == [g \in Four |-> <<Kind[g], "queue">>]

Pool == INSTANCE LocalRateLimits
          WITH Goroutines <- Four, GateOf <- Kind, Rules <- WindowAndSmooth,
               KeyOf <- KindAndQueue, MaxTime <- LocalMaxTime, clock <- localClock

RatesInit ==
  /\ scope \in {"global", "local"}
  /\ Init /\ Pool!Init
  /\ scope = "local" => mode = "gcra"

RatesNext ==
  \/ scope = "global" /\ Next /\ UNCHANGED <<scope, localVars>>
  \/ scope = "local" /\ Pool!Next /\ UNCHANGED <<scope, vars>>

RatesSpec ==
  /\ RatesInit
  /\ [][RatesNext]_<<vars, scope, localVars>>
  /\ \A w \in Workers : WF_vars(Attempt(w))

\* The cursor and the counters of a pool keep their types; no fixed window
\* counts more than its limit, nor less than one permit where there is a cursor
\* (acquireFixedWindow, reserveLocalRateLimits).
RatesTypeOK == TypeOK /\ Pool!TypeOK

\* The local limits of a pool hold whatever is rolled back: a smooth rule also
\* across rate gates and overlapping reservations, a window where its key
\* implies the gate (reserveLocalRateLimits, rollbackLocked).
PoolLimitsHold == Pool!SmoothBound /\ Pool!WindowBound
=============================================================================
