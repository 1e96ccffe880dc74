-------------------------- MODULE MCLocalRateLimits --------------------------
(***************************************************************************)
(* Jobs of two kinds in one queue; the kind is also the rate gate, because  *)
(* some rule of the queue is keyed by it.                                   *)
(***************************************************************************)
EXTENDS LocalRateLimits

Three == 1..3

Kind == <<"mail", "index", "mail">>

\* A window for the whole queue; the rule keyed by kind is a global one.
QueueWindow == <<[mode |-> "fixed", limit |-> 2, period |-> 2, burst |-> 1]>>
QueueOnly == [g \in Goroutines |-> <<"queue">>]
=============================================================================
