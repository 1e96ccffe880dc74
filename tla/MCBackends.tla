----------------------------- MODULE MCBackends -----------------------------
(***************************************************************************)
(* Configurations of Backends for TLC, one behaviour each: a driver, with  *)
(* one job and two workers or one worker with heartbeats, or with jobs     *)
(* that share a unique key, enqueued by two clients.                       *)
(***************************************************************************)
EXTENDS Backends, TLC

CONSTANTS w1, w2, c1, c2, none, pool

Symmetry == Permutations(Workers) \cup Permutations(Clients)

Pair    == {Workers}
Singles == {{w} : w \in Workers}
Alone   == {{c} : c \in Clients}

\* The clock of DynamoDB's text instants counts half seconds.
LastInstant(d) == IF d = "dynamodb" THEN 2 ELSE 1

Claims(drivers, pools, shared, beats, budgets) ==
  UNION {[driver : {d}, key : {"none"}, workers : pools, shared : shared, beats : beats,
          clients : Alone, jobs : {1}, budget : budgets, time : {LastInstant(d)}] :
           d \in drivers}

Keys(drivers, keys, jobs, budgets) ==
  [driver : drivers, key : keys, workers : Singles, shared : {FALSE}, beats : {FALSE},
   clients : {Clients}, jobs : jobs, budget : budgets, time : {0}]

\* The calls of these drivers have few steps.
Short == {"memory", "pgx", "mongodb"}

NoKey == {"none"}
Kinds == {"active", "forever"}

AllDrivers ==
  Claims(Short, Pair, BOOLEAN, {TRUE}, {3})
  \cup Claims({"stdlib", "firestore"}, Pair, BOOLEAN, {TRUE}, {2})
  \cup Claims({"redis"}, Pair, {FALSE}, {FALSE}, {2})
  \cup Claims({"dynamodb", "cassandra"}, Pair, {FALSE}, {FALSE}, {1})
  \cup Claims({"clickhouse"}, Pair, {FALSE}, {FALSE}, {0})
  \cup Claims({"redis", "dynamodb", "cassandra", "clickhouse"}, Pair, {TRUE}, {FALSE}, {1})
  \cup Claims({"redis", "dynamodb"}, Singles, {FALSE}, {TRUE}, {2})
  \cup Claims({"cassandra", "clickhouse"}, Singles, {FALSE}, {TRUE}, {1})
  \cup Keys(Short \cup {"firestore"}, Kinds, {3}, {2})
  \cup Keys({"stdlib", "redis"}, Kinds, {3}, {1})
  \cup Keys({"dynamodb", "cassandra"}, Kinds, {2}, {2})
  \cup Keys({"clickhouse"}, Kinds, {2}, {1})
  \cup Keys({"clickhouse"}, NoKey, {1}, {2})

\* Two workers over driver/stdlib, and nobody else.
TwoOverSQL == Claims({"stdlib"}, Pair, {FALSE}, {FALSE}, {0})
=============================================================================
