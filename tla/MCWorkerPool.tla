---------------------------- MODULE MCWorkerPool ----------------------------
(* Instances of WorkerPool for TLC.                                        *)
EXTENDS WorkerPool

CONSTANTS a, b, mail, index, book, urgent

Attributes(q, kind, l) == [queue |-> q, kind |-> kind, pipeline |-> l, tag |-> urgent]

\* All jobs in one pipeline.
Chained == [j \in JobIDs |-> Attributes(a, mail, book)]

\* A pipeline across two queues (1 and 2), rivals for a key (1 and 3) and for
\* a kind (2 and 3).
Mixed == [j \in JobIDs |-> CASE j = 1 -> Attributes(a, mail, book)
                             [] j = 2 -> Attributes(b, index, book)
                             [] j = 3 -> Attributes(a, index, NoPipeline)]


OneQueue  == <<a>>
TwoQueues == <<a, b>>

Policy(weight, concurrency, keys, rates) ==
  [weight |-> weight, concurrency |-> concurrency,
   keyConcurrency |-> keys, rateLimits |-> rates]

KeyRule(key, limit) == [key |-> key, limit |-> limit]
RateRule(key)       == [key |-> key]

Free      == Policy(1, 0, << >>, << >>)
Twice     == Policy(2, 0, << >>, << >>)
Limited   == Policy(1, 2, <<KeyRule("kind", 2), KeyRule("tag", 1)>>, <<RateRule("queue")>>)

TwiceOnly    == {Twice}
LimitedOnly  == {Free, Limited}

AllTwice     == [q \in ConfiguredQueues |-> Twice]
FirstLimited == [q \in ConfiguredQueues |-> IF q = a THEN Limited ELSE Free]

OneIndex  == [kind \in Kinds |-> IF kind = index THEN 1 ELSE 0]
Unlimited == [kind \in Kinds |-> 0]
=============================================================================
